---- MODULE Spec2Model ----
(***************************************************************************)
(* Model of the ExcelProtocol bot: the live-stream detection and           *)
(* notification state machine of src/bot.py (check_streams,                *)
(* send_notification, delete_offline_notifications, send_owner_alert),     *)
(* the Twitch client of src/twitch_api.py (get_access_token,               *)
(* get_live_streams) and the store of src/database.py.                     *)
(*                                                                         *)
(* Environment assumptions, stated once:                                   *)
(*  - a 200 response of the streams endpoint is a well-formed Helix        *)
(*    answer: one record per live login of the request, user_login in      *)
(*    lower case, started_at in the '%Y-%m-%dT%H:%M:%SZ' format;           *)
(*  - the clock (datetime.utcnow) does not run backwards, and is read as   *)
(*    constant within one polling cycle;                                   *)
(*  - store calls made inside the locally guarded handlers succeed; the    *)
(*    store read that opens a cycle may fail.                              *)
(***************************************************************************)
EXTENDS Integers, Sequences, FiniteSets, TLC

\* ---------------------------------------------------------------- bounds
\* The polling period in seconds the bot is configured with
\* (CHECK_INTERVAL_SECONDS is read from the environment).  150 makes a
\* stream's age hit the recency threshold exactly (300) and pass it (450).
CheckInterval == 150
\* The clock stops after this many polling periods.
MaxTicks == 2
\* Chunk size of check_streams.  The code uses 100 (bot.py:92-93); the
\* model scales it down so that two names already make two chunks.
BatchSize == 1
\* Faults of the environment in one run: a get_live_streams call that meets a
\* failed request or token exchange, a failed delivery, a failed store read.
MaxFaults == 1
\* Configuration commands (add_streamer, remove_streamer, set_auto_delete) run.
MaxCommands == 3
\* Streams started or ended upstream.
MaxStreamEvents == 2
\* TokenSpec: seconds between two readings of the clock, and the number of
\* readings.  30 puts a call exactly 60 seconds before an expiry.
TokenStep == 30
MaxTokenTicks == 6
\* StoreSpec: store calls made by the command handlers.
MaxStoreCalls == 4
\* AlertSpec: seconds between two readings of the clock, the number of
\* readings, and the operator DMs delivered.  Two steps of 1800 seconds put a
\* call exactly one cooldown after a delivery.
AlertStep == 1800
MaxAlertTicks == 3
MaxAlerts == 3
\* GuildSpec: store calls and removals of the bot from a server.
MaxGuildCalls == 7
\* CleanupSpec: hours that pass, and pins, unpins and deletions by users.
MaxCleanupTicks == 2
MaxUserEvents == 2
\* RecencySpec: polling cycles of a run.
MaxRecencyCycles == 5
\* RoleSpec: button clicks of the member.
MaxClicks == 4

\* ------------------------------------------------------ program constants
\* database.py, line 54: the column default of server_settings.embed_color
\* (0x9146FF).
EMBED_COLOR_COLUMN_DEFAULT == 9520895
\* database.py, line 395: what get_embed_color answers without a colour
\* (0x00FFFF).
EMBED_COLOR_FALLBACK == 65535
\* bot.py, line 1031: the colour /resetcolor stores (0x9146FF).
RESET_COLOR == 9520895
\* bot.py, line 43: alert_cooldown.
ALERT_COOLDOWN == 3600
\* bot.py, line 408: timedelta(hours=interval_hours), in seconds per hour.
SECONDS_PER_HOUR == 3600
\* bot.py, lines 425-426: timedelta.days, in seconds per day, and the age
\* below which a message goes to the bulk delete.
SECONDS_PER_DAY == 86400
BULK_DELETE_DAYS == 14
RECENCY_SECONDS == 300
TOKEN_BUFFER_SECONDS == 60
BOT_OWNER_ID == 0

\* ------------------------------------------------------------- universes
Guilds == {1, 2}
Streamers == {"alice", "bob"}
\* What a user may type for a streamer name.
NameInputs == {"alice", "Alice", "bob"}
\* The subscriptions the commands of a run ask for: two servers for alice (a
\* fan-out), two names for server 1 (two chunks).
Subscribable == {<<1, "alice">>, <<2, "alice">>, <<1, "bob">>}
\* Start time of a stream that has been live for three hours at time 0.
LongAgo == 0 - 10800
\* expires_in values the token endpoint answers with.
ExpiresInChoices == {210}

Offline == [live |-> FALSE, started_at |-> 0]
LiveSince(t) == [live |-> TRUE, started_at |-> t]
NoToken == "None"
NoExpiry == 0 - 1
NoStream == [user_login |-> "", started_at |-> 0]

MaxTime == MaxTicks * CheckInterval

\* str.lower()
Lower(name) == IF name = "Alice" THEN "alice" ELSE name

\* The notification channel add_streamer stores for a guild.
ChannelOf(g) == 10 * g

\* The id Discord gives a message: unique per creation time and place.
Snowflake(t, g, login) == <<t, g, login>>

Min(a, b) == IF a < b THEN a ELSE b

\* All orders in which the elements of S can be listed.
Perms(S) ==
    {f \in [1..Cardinality(S) -> S] : \A x \in S : \E n \in 1..Cardinality(S) : f[n] = x}

SeqToSet(q) == {q[n] : n \in 1..Len(q)}

VARIABLES
    \* --- database.py
    monitored_streamers,    \* rows [guild_id, streamer_name, channel_id]
    auto_delete,            \* guild -> server_settings.auto_delete_notifications
    notification_messages,  \* rows [guild_id, streamer_name, channel_id, message_id]
    \* --- Discord
    discord_messages,       \* ids of the notification messages that exist
    \* --- Twitch
    upstream,               \* streamer -> Offline or LiveSince(started_at)
    now,                    \* datetime.utcnow(), seconds
    \* --- TwitchAPI
    access_token,
    token_expires_at,
    \* --- TwitchNotifierBot
    live_streamers,
    loop_running,           \* check_streams.is_running()
    \* --- check_streams: position and locals
    pc,
    streamers,
    unique_streamers,
    i,
    live_streams,
    k,
    cur_stream,
    monitoring_servers,
    j,
    cleanup_name,
    cleanup_servers,
    \* --- history of the current cycle
    cycle_sent,             \* [guild, streamer] -> send_notification calls
    cyc_new,                \* untracked names a poll returned live inside the recency window
    cyc_old,                \* untracked names a poll returned live outside of it
    cyc_live,               \* names the polls of this cycle returned live
    cyc_missing,            \* tracked names a poll of this cycle did not return
    cyc_failed_send,        \* rows whose delivery failed
    cyc_raised,             \* an exception reached the top-level handler
    alert_requested,        \* send_owner_alert was called by the handler
    cyc_calls,              \* get_live_streams calls
    cyc_nonauth,            \* number of the first call that met a non-auth failure, or 0
    call,                   \* what the last get_live_streams call did
    cyc_asked,              \* the list of names of each get_live_streams call, in order
    cyc_deletions,          \* [message_id, outcome] of each recorded message the cleanup went through
    \* --- history across cycles
    prev_live,              \* cyc_live of the previous cycle
    prev_raised,            \* cyc_raised of the previous cycle
    observed_live,          \* names the last live batch returned for them held
    sess_suppressed,        \* names observed untracked and too old, in the running stream
    sess_sent,              \* [guild, streamer] -> messages delivered in the running stream
    sess_messages,          \* the messages delivered for the last stream of each name
    \* --- counters that bound the run
    commands_run,
    stream_events,
    faults,
    \* --- history of get_access_token (TokenSpec)
    tok_call,               \* the last call: what it found and what it did
    \* --- the store as the command handlers see it (StoreSpec)
    server_settings,        \* guild -> its server_settings row, or NoSettings
    pending_add,            \* guild -> the /addstreamer command suspended at its awaits
    cmd_result,             \* the last add_streamer or remove_streamer call
    color_set,              \* guilds for which set_embed_color was called
    store_calls,
    \* --- send_owner_alert (AlertSpec)
    error_alerts_sent,      \* alert key -> current_time of the last delivered alert
    alert_pending,          \* task -> its send_owner_alert call suspended at an await
    alerts_delivered,       \* the operator DMs delivered, in order
    alert_call,             \* the last send_owner_alert call and how it ended
    \* --- the store around on_guild_remove (GuildSpec)
    cleanup_configs,        \* rows [guild_id, channel_id, interval_hours, keep_pinned]
    guild_call,             \* the last on_guild_remove: the guild and the tables that held rows of it
    guild_calls,
    \* --- cleanup_channel and the channel it cleans (CleanupSpec)
    channel_messages,       \* ids of the messages in the channel
    pinned,                 \* ids of the pinned ones
    cleanup_pc,             \* "idle", "bulk" (at delete_messages), "individual" (at message.delete)
    cutoff_time,
    job_keep_pinned,        \* keep_pinned of the running job
    bulk_delete,
    individual_delete,
    listed_pinned,          \* the messages history() returned as pinned
    job_deleted,            \* the messages the running job has deleted
    user_events,
    \* --- the polling loop under a configured period (RecencySpec)
    check_interval,         \* CHECK_INTERVAL_SECONDS, 0 before the bot has started
    attempted,              \* [guild, name]: send_notification was called for the running stream
    observed,               \* names whose running stream an answered poll returned
    recency_cycles,
    \* --- a button role picker and one member (RoleSpec)
    picker,                 \* NoPicker, or max_roles and only_add of the picker's view
    member_roles,           \* the roles of the group the member holds
    interactions,           \* slot -> the button interaction suspended in add_roles or remove_roles
    clicks

dbVars == <<monitored_streamers, auto_delete, notification_messages>>
discordVars == <<discord_messages>>
twitchVars == <<upstream, now>>
tokenVars == <<access_token, token_expires_at>>
botVars == <<live_streamers, loop_running>>
localVars == <<pc, streamers, unique_streamers, i, live_streams, k, cur_stream,
               monitoring_servers, j, cleanup_name, cleanup_servers>>
cycVars == <<cycle_sent, cyc_new, cyc_old, cyc_live, cyc_missing, cyc_failed_send,
             cyc_raised, alert_requested, cyc_calls, cyc_nonauth, call, cyc_deletions,
                   cyc_asked>>
histVars == <<prev_live, prev_raised, observed_live, sess_suppressed, sess_sent,
              sess_messages>>
boundVars == <<commands_run, stream_events, faults>>
\* What Spec, the polling cycle, neither reads nor writes.
storeVars == <<server_settings, pending_add, cmd_result, color_set, store_calls>>
alertVars == <<error_alerts_sent, alert_pending, alerts_delivered, alert_call>>
guildVars == <<cleanup_configs, guild_call, guild_calls>>
cleanupVars == <<channel_messages, pinned, cleanup_pc, cutoff_time, job_keep_pinned,
                 bulk_delete, individual_delete, listed_pinned, job_deleted, user_events>>
recencyVars == <<check_interval, attempted, observed, recency_cycles>>
roleVars == <<picker, member_roles, interactions, clicks>>
extVars == <<tok_call, storeVars, alertVars, guildVars, cleanupVars, recencyVars, roleVars>>
vars == <<dbVars, discordVars, twitchVars, tokenVars, botVars, localVars,
          cycVars, histVars, boundVars, extVars>>

\* A command handler runs while check_streams is suspended: between cycles or
\* at one of its awaits (get_live_streams, channel.send, the fetch and delete
\* of delete_offline_notifications).
CommandPoint ==
    /\ pc \in {"idle", "send", "cleanup"}
    /\ commands_run < MaxCommands
    /\ UNCHANGED <<stream_events, faults>>

\* The run counts the commands that change the store.
CountCommand(changed) ==
    commands_run' = IF changed THEN commands_run + 1 ELSE commands_run

NoCall == [requests |-> 0, first |-> "none", retry |-> "none", cleared |-> FALSE,
           exchanged_after_clear |-> FALSE, raised |-> FALSE, answered |-> FALSE,
           streams |-> {}]

ZeroSent == [p \in Guilds \X Streamers |-> 0]

\* ============================================================ twitch_api.py

\* A line 33 without the 60 second buffer: C11 does not hold under it.
get_access_token_NoBuffer(tok, exp, t, ex, expires_in) ==
    IF tok # NoToken /\ exp # NoExpiry /\ t < exp
    THEN [token |-> tok, expires |-> exp, exchanged |-> FALSE, raised |-> FALSE]
    ELSE IF ex = "fail"
         THEN [token |-> tok, expires |-> exp, exchanged |-> TRUE, raised |-> TRUE]
         ELSE [token |-> "token", expires |-> t + expires_in,
               exchanged |-> TRUE, raised |-> FALSE]

\* get_access_token: the cached token while it is more than the buffer away
\* from expiry, otherwise one client-credentials exchange (ex is its outcome).
get_access_token(tok, exp, t, ex, expires_in) ==
    IF tok # NoToken /\ exp # NoExpiry /\ t < exp - TOKEN_BUFFER_SECONDS
    THEN [token |-> tok, expires |-> exp, exchanged |-> FALSE, raised |-> FALSE]
    ELSE IF ex = "fail"
         THEN [token |-> tok, expires |-> exp, exchanged |-> TRUE, raised |-> TRUE]
         ELSE [token |-> "token", expires |-> t + expires_in,
               exchanged |-> TRUE, raised |-> FALSE]

\* The 200 answer of the streams endpoint for the logins asked.
HelixStreams(names, up) ==
    {[user_login |-> Lower(s), started_at |-> up[s].started_at] :
        s \in {x \in names : up[x].live}}

\* Lines 102-111 of get_live_streams: the records of a 200 answer, enriched by
\* _get_profile_images, whose own _headers() call may need an exchange (ex3)
\* and raises into the try block of get_live_streams when that exchange fails.
Enriched(data, tk, t, ex3, expires_in) ==
    IF data = {}
    THEN [streams |-> {}, ok |-> TRUE, token |-> tk.token, expires |-> tk.expires]
    ELSE LET h == get_access_token(tk.token, tk.expires, t, ex3, expires_in)
         IN  IF h.raised
             THEN [streams |-> {}, ok |-> FALSE, token |-> h.token, expires |-> h.expires]
             ELSE [streams |-> data, ok |-> TRUE, token |-> h.token, expires |-> h.expires]

\* A line 88 that keeps the cached token: C10 does not hold under it.
TokenAfter401Kept(tok) == tok

\* The token get_live_streams asks for after a 401 (line 88).
TokenAfter401(tok) == NoToken

\* Lines 96-98 and 113-115 raising for returning []: C9 does not hold under it.
NonAuthFailureRaisesAlways(status) == TRUE

\* What get_live_streams returns for a status other than 200 and 401, and for
\* an exception of the request (lines 96-98, 113-115).
NonAuthFailureRaises(status) == FALSE

\* The outcomes the environment picks for one call: the first token exchange,
\* the first request, the exchange and request of the retry, the exchange of
\* _get_profile_images.  The retry's outcomes are fixed when no retry is made.
EnvChoices ==
    {e \in [ex1 : {"ok", "fail"}, st1 : {"200", "401", "other", "exception"},
            ex2 : {"ok", "fail"}, st2 : {"200", "401", "other", "exception"},
            ex3 : {"ok", "fail"}, expires_in : ExpiresInChoices] :
        e.st1 # "401" => (e.ex2 = "ok" /\ e.st2 = "200")}

\* get_live_streams(usernames) under the environment's answers e.
get_live_streams(usernames, tok, exp, t, up, e) ==
    LET names == {Lower(usernames[n]) : n \in 1..Min(Len(usernames), 100)}
        h1 == get_access_token(tok, exp, t, e.ex1, e.expires_in)
        base == [NoCall EXCEPT !.first = e.st1]
    IN  IF usernames = <<>>
        THEN [NoCall EXCEPT !.streams = {}] @@ [token |-> tok, expires |-> exp]
        ELSE IF h1.raised
        THEN [NoCall EXCEPT !.raised = TRUE] @@ [token |-> h1.token, expires |-> h1.expires]
        ELSE IF e.st1 = "401"
        THEN LET h2 == get_access_token(TokenAfter401(h1.token), h1.expires, t,
                                        e.ex2, e.expires_in)
             IN  IF h2.raised
                 THEN [base EXCEPT !.requests = 1,
                                   !.cleared = (TokenAfter401(h1.token) = NoToken),
                                   !.exchanged_after_clear = h2.exchanged]
                      @@ [token |-> TokenAfter401(h1.token), expires |-> h2.expires]
                 ELSE LET data == IF e.st2 = "200" THEN HelixStreams(names, up) ELSE {}
                          r == Enriched(data, h2, t, e.ex3, e.expires_in)
                      IN  [base EXCEPT !.requests = 2, !.retry = e.st2,
                                       !.cleared = (TokenAfter401(h1.token) = NoToken),
                                       !.exchanged_after_clear = h2.exchanged,
                                       !.answered = (e.st2 = "200" /\ r.ok),
                                       !.streams = r.streams]
                          @@ [token |-> r.token, expires |-> r.expires]
        ELSE IF e.st1 = "200"
        THEN LET r == Enriched(HelixStreams(names, up), h1, t, e.ex3, e.expires_in)
             IN  [base EXCEPT !.requests = 1, !.answered = r.ok, !.streams = r.streams]
                 @@ [token |-> r.token, expires |-> r.expires]
        ELSE [base EXCEPT !.requests = 1, !.raised = NonAuthFailureRaises(e.st1)]
             @@ [token |-> h1.token, expires |-> h1.expires]

\* ============================================================== database.py

\* The UNIQUE(guild_id, streamer_name) key of monitored_streamers.
HasRow(g, lowered) ==
    \E r \in monitored_streamers : r.guild_id = g /\ r.streamer_name = lowered

\* add_streamer: INSERT with the name in lower case; the UNIQUE(guild_id,
\* streamer_name) constraint rejects a second row (IntegrityError, False).
add_streamer(g, name) ==
    /\ UNCHANGED extVars
    /\ CommandPoint
    /\ <<g, Lower(name)>> \in Subscribable
    /\ monitored_streamers' =
         IF HasRow(g, Lower(name))
         THEN monitored_streamers
         ELSE monitored_streamers \cup
                {[guild_id |-> g, streamer_name |-> Lower(name), channel_id |-> ChannelOf(g)]}
    /\ CountCommand(~HasRow(g, Lower(name)))
    /\ UNCHANGED <<auto_delete, notification_messages, discordVars, twitchVars,
                   tokenVars, botVars, localVars, cycVars, histVars>>

\* remove_streamer: DELETE WHERE guild_id = ? AND streamer_name = lower(?).
remove_streamer(g, name) ==
    /\ UNCHANGED extVars
    /\ CommandPoint
    /\ monitored_streamers' =
         {r \in monitored_streamers :
             ~(r.guild_id = g /\ r.streamer_name = Lower(name))}
    /\ CountCommand(HasRow(g, Lower(name)))
    /\ UNCHANGED <<auto_delete, notification_messages, discordVars, twitchVars,
                   tokenVars, botVars, localVars, cycVars, histVars>>

\* set_auto_delete: upsert of server_settings.auto_delete_notifications.
set_auto_delete(g, enabled) ==
    /\ UNCHANGED extVars
    /\ CommandPoint
    /\ auto_delete' = [auto_delete EXCEPT ![g] = enabled]
    /\ CountCommand(auto_delete[g] # enabled)
    /\ UNCHANGED <<monitored_streamers, notification_messages, discordVars,
                   twitchVars, tokenVars, botVars, localVars, cycVars, histVars>>

\* A get_auto_delete that answers yes for every server: C13 does not hold
\* under it.
get_auto_delete_Always(g) == TRUE

\* get_auto_delete
get_auto_delete(g) == auto_delete[g]

\* A get_notification_messages that finds no record: C15 does not hold under it.
get_notification_messages_None(g, name) == {}

\* get_notification_messages
get_notification_messages(g, name) ==
    {m \in notification_messages : m.guild_id = g /\ m.streamer_name = Lower(name)}

\* ================================================================== Twitch

\* A streamer starts a stream.  Only a poll reads upstream, so the model lets
\* streams start and end between cycles.  A stream found live when the bot
\* comes up (time 0) may have started long before.
GoLive(s, started_at) ==
    /\ UNCHANGED extVars
    /\ pc = "idle"
    /\ stream_events < MaxStreamEvents
    /\ stream_events' = stream_events + 1
    /\ UNCHANGED <<commands_run, faults>>
    /\ ~upstream[s].live
    /\ started_at = now \/ (now = 0 /\ started_at = LongAgo)
    /\ upstream' = [upstream EXCEPT ![s] = LiveSince(started_at)]
    /\ sess_suppressed' = sess_suppressed \ {s}
    /\ sess_messages' = {m \in sess_messages : m.streamer_name # s}
    /\ sess_sent' = [p \in Guilds \X Streamers |-> IF p[2] = s THEN 0 ELSE sess_sent[p]]
    /\ UNCHANGED <<now, dbVars, discordVars, tokenVars, botVars, localVars, cycVars,
                   prev_live, prev_raised, observed_live>>

GoOffline(s) ==
    /\ UNCHANGED extVars
    /\ pc = "idle"
    /\ stream_events < MaxStreamEvents
    /\ stream_events' = stream_events + 1
    /\ UNCHANGED <<commands_run, faults>>
    /\ upstream[s].live
    /\ upstream' = [upstream EXCEPT ![s] = Offline]
    /\ sess_suppressed' = sess_suppressed \ {s}
    /\ UNCHANGED sess_messages
    /\ sess_sent' = [p \in Guilds \X Streamers |-> IF p[2] = s THEN 0 ELSE sess_sent[p]]
    /\ UNCHANGED <<now, dbVars, discordVars, tokenVars, botVars, localVars, cycVars,
                   prev_live, prev_raised, observed_live>>

\* Somebody else deletes a notification message in Discord; the bot is not
\* told (delete_offline_notifications, lines 262-263, meets NotFound later).
DeleteElsewhere(m) ==
    /\ UNCHANGED extVars
    /\ pc = "idle"
    /\ faults < MaxFaults
    /\ faults' = faults + 1
    /\ UNCHANGED <<commands_run, stream_events>>
    /\ m \in discord_messages
    /\ discord_messages' = discord_messages \ {m}
    /\ UNCHANGED <<dbVars, twitchVars, tokenVars, botVars, localVars, cycVars, histVars>>

\* ================================================================== bot.py

\* A line 101 that never skips: C2 does not hold under it.
AlreadyNotifiedNever(name, live) == FALSE

\* check_streams, line 101: the stream was already notified about.
AlreadyNotified(name, live) == name \in live

\* A line 111 with >= for >: C1 does not hold under it.
IsTooOldInclusive(stream, t) == t - stream.started_at >= RECENCY_SECONDS

\* A line 111 that never suppresses: C3 does not hold under it.
IsTooOldNever(stream, t) == FALSE

\* check_streams, lines 106-111: the stream started more than 5 minutes ago.
IsTooOld(stream, t) == t - stream.started_at > RECENCY_SECONDS

\* Lines 113 and 117 without the add: C6 does not hold under it.
MarkSeenDropped(live, name) == live

\* check_streams, lines 113 and 117: the name is marked as seen.
MarkSeen(live, name) == live \cup {name}

\* check_streams, lines 120-123 (and delete_offline_notifications, 243-246).
MonitoringServers(rows, name) ==
    {s \in rows : Lower(s.streamer_name) = Lower(name)}

\* A line 93 that cuts every chunk from the start of the list: C24 does not
\* hold under it.
BatchFromStart(names, offset) == SubSeq(names, 1, Min(offset + BatchSize, Len(names)))

\* check_streams, line 93: batch = unique_streamers[i:i+100].
Batch(names, offset) == SubSeq(names, offset + 1, Min(offset + BatchSize, Len(names)))

\* The number of iterations of range(0, len(unique_streamers), 100).
NumBatches(names) == (Len(names) + BatchSize - 1) \div BatchSize

\* A send_notification without the handler of lines 235-236: C7 does not hold
\* under it.
SendRaisesOnError(outcome) == outcome = "error"

\* send_notification, lines 160 and 235-236: every exception is absorbed.
SendRaises(outcome) == FALSE

SendOutcomes == {"no_channel", "forbidden", "error", "sent"}

ResetLocals ==
    /\ streamers' = {}
    /\ unique_streamers' = <<>>
    /\ i' = 0
    /\ live_streams' = <<>>
    /\ k' = 1
    /\ cur_stream' = NoStream
    /\ monitoring_servers' = {}
    /\ j' = 1
    /\ cleanup_name' = ""
    /\ cleanup_servers' = {}

ResetCycleHistory ==
    /\ cycle_sent' = ZeroSent
    /\ cyc_new' = {}
    /\ cyc_old' = {}
    /\ cyc_live' = {}
    /\ cyc_missing' = {}
    /\ cyc_failed_send' = {}
    /\ cyc_raised' = FALSE
    /\ alert_requested' = FALSE
    /\ cyc_calls' = 0
    /\ cyc_nonauth' = 0
    /\ call' = NoCall
    /\ cyc_deletions' = {}
    /\ cyc_asked' = <<>>

\* TwitchAPI.__init__: no token yet.
InitToken ==
    /\ access_token = NoToken
    /\ token_expires_at = NoExpiry

NoTokenCall == [had_token |-> FALSE, had_expiry |-> NoExpiry, at |-> 0,
                token |-> NoToken, expires |-> NoExpiry, expires_in |-> 0,
                exchanges |-> 0, raised |-> FALSE]

\* NULL of the store and None of Python.
Null == 0 - 1

\* No server_settings row.
NoSettings == [notification_channel_id |-> Null, embed_color |-> Null,
               auto_delete_notifications |-> Null]

NoPending == [name |-> "", channel_id |-> Null]

NoResult == [seq |-> 0, op |-> "none", guild_id |-> 0, name |-> "", returned |-> FALSE]

InitStore ==
    /\ server_settings = [g \in Guilds |-> NoSettings]
    /\ pending_add = [g \in Guilds |-> NoPending]
    /\ cmd_result = NoResult
    /\ color_set = {}
    /\ store_calls = 0

\* The tasks that call send_owner_alert, and the alerts each of them raises:
\* check_streams (lines 145 and 167) and cleanup_channels (line 396; its
\* "Cleanup Failed" of line 369 is one more alert without a guild).  Guild 0
\* stands for an alert without a guild.
AlertTasks == {"check_streams", "cleanup_channels"}

AlertsOf(task) ==
    IF task = "check_streams"
    THEN {<<"Stream Check Failed", 0>>, <<"Channel Not Found", 1>>,
          <<"Channel Not Found", 2>>}
    ELSE {<<"Missing Permissions", 1>>}

\* A key that leaves the guild out: C18 does not hold under it.
ErrorKeyNoGuild(error_type, guild_id) == <<error_type, "global">>

\* send_owner_alert, line 282: f"{error_type}:{guild_id or 'global'}".
ErrorKey(error_type, guild_id) ==
    <<error_type, IF guild_id = 0 THEN "global" ELSE ToString(guild_id)>>

\* The keys error_alerts_sent can hold.
ErrorKeys ==
    {a[1] : a \in UNION {AlertsOf(task) : task \in AlertTasks}}
        \X ({"global"} \cup {ToString(g) : g \in Guilds})

NoAlert == [error_type |-> "", guild_id |-> 0, current_time |-> Null]

NoAlertCall == [error_type |-> "", guild_id |-> 0, current_time |-> Null,
                outcome |-> "none"]

\* TwitchNotifierBot.__init__, lines 41-43: error_alerts_sent = {}.
InitAlert ==
    /\ error_alerts_sent = [key \in ErrorKeys |-> Null]
    /\ alert_pending = [task \in AlertTasks |-> NoAlert]
    /\ alerts_delivered = <<>>
    /\ alert_call = NoAlertCall

NoGuildCall == [seq |-> 0, guild_id |-> 0, tables |-> {}]

\* init_database: the tables are created empty.
InitGuild ==
    /\ cleanup_configs = {}
    /\ guild_call = NoGuildCall
    /\ guild_calls = 0

\* The messages of the cleaned channel.
Messages == {1, 2, 3, 4}

\* message.created_at: twenty days, two days, thirteen hours and one hour
\* before time 0.
CreatedAt(message) ==
    CASE message = 1 -> 0 - 20 * SECONDS_PER_DAY
      [] message = 2 -> 0 - 2 * SECONDS_PER_DAY
      [] message = 3 -> 0 - 13 * SECONDS_PER_HOUR
      [] OTHER -> 0 - SECONDS_PER_HOUR

\* The channel before the first run of the job: no message is pinned.
InitCleanup ==
    /\ channel_messages = Messages
    /\ pinned = {}
    /\ cleanup_pc = "idle"
    /\ cutoff_time = 0
    /\ job_keep_pinned = FALSE
    /\ bulk_delete = {}
    /\ individual_delete = {}
    /\ listed_pinned = {}
    /\ job_deleted = {}
    /\ user_events = 0

\* The bot has not started.
InitRecency ==
    /\ check_interval = 0
    /\ attempted = {}
    /\ observed = {}
    /\ recency_cycles = 0

\* Button interactions of the member that can be in flight together.
Slots == {1, 2}

NoPicker == [max_roles |-> Null, only_add |-> FALSE]

NoInteraction == [role_id |-> 0, await |-> "none"]

\* No picker has been posted and the member holds no role of the group.
InitRole ==
    /\ picker = NoPicker
    /\ member_roles = {}
    /\ interactions = [slot \in Slots |-> NoInteraction]
    /\ clicks = 0

InitExt ==
    /\ tok_call = NoTokenCall
    /\ InitStore
    /\ InitAlert
    /\ InitGuild
    /\ InitCleanup
    /\ InitRecency
    /\ InitRole

\* Everything but the token and the clock.
InitRest ==
    /\ monitored_streamers = {}
    /\ auto_delete = [g \in Guilds |-> FALSE]
    /\ notification_messages = {}
    /\ discord_messages = {}
    /\ upstream = [s \in Streamers |-> Offline]
    /\ live_streamers = {}
    /\ loop_running = TRUE
    /\ pc = "idle"
    /\ streamers = {}
    /\ unique_streamers = <<>>
    /\ i = 0
    /\ live_streams = <<>>
    /\ k = 1
    /\ cur_stream = NoStream
    /\ monitoring_servers = {}
    /\ j = 1
    /\ cleanup_name = ""
    /\ cleanup_servers = {}
    /\ cycle_sent = ZeroSent
    /\ cyc_new = {}
    /\ cyc_old = {}
    /\ cyc_live = {}
    /\ cyc_missing = {}
    /\ cyc_failed_send = {}
    /\ cyc_raised = FALSE
    /\ alert_requested = FALSE
    /\ cyc_calls = 0
    /\ cyc_nonauth = 0
    /\ call = NoCall
    /\ cyc_deletions = {}
    /\ cyc_asked = <<>>
    /\ prev_live = {}
    /\ prev_raised = FALSE
    /\ observed_live = {}
    /\ sess_suppressed = {}
    /\ sess_sent = ZeroSent
    /\ sess_messages = {}
    /\ commands_run = 0
    /\ stream_events = 0
    /\ faults = 0
    /\ InitExt

Init ==
    /\ InitRest
    /\ InitToken
    /\ now = 0

\* check_streams, lines 79-88: the subscriptions are read and the unique names
\* listed (list(set(...)) fixes no order); no subscription ends the cycle.
StartCycle ==
    /\ UNCHANGED extVars
    /\ UNCHANGED boundVars
    /\ pc = "idle"
    /\ loop_running
    /\ streamers' = monitored_streamers
    /\ IF monitored_streamers = {}
       THEN /\ pc' = "done"
            /\ unique_streamers' = <<>>
       ELSE /\ pc' = "poll"
            /\ unique_streamers' \in Perms({s.streamer_name : s \in monitored_streamers})
    /\ i' = 0
    /\ UNCHANGED <<live_streams, k, cur_stream, monitoring_servers, j, cleanup_name,
                   cleanup_servers>>
    /\ UNCHANGED <<dbVars, discordVars, twitchVars, tokenVars, botVars, cycVars, histVars>>

\* check_streams, line 79 raising: the store read fails and the exception
\* goes to the handler of line 141.
StartCycleStoreError ==
    /\ UNCHANGED extVars
    /\ pc = "idle"
    /\ loop_running
    /\ faults < MaxFaults
    /\ faults' = faults + 1
    /\ UNCHANGED <<commands_run, stream_events>>
    /\ pc' = "except"
    /\ cyc_raised' = TRUE
    /\ UNCHANGED <<streamers, unique_streamers, i, live_streams, k, cur_stream,
                   monitoring_servers, j, cleanup_name, cleanup_servers>>
    /\ UNCHANGED <<cycle_sent, cyc_new, cyc_old, cyc_live, cyc_missing, cyc_failed_send,
                   alert_requested, cyc_calls, cyc_nonauth, call, cyc_deletions,
                   cyc_asked>>
    /\ UNCHANGED <<dbVars, discordVars, twitchVars, tokenVars, botVars, histVars>>

\* A call that met no failure: the first request was answered 200 and
\* nothing raised.
CleanCall(r) == ~r.raised /\ r.first = "200" /\ r.answered

\* check_streams, line 94: get_live_streams for the chunk at offset i.  An
\* exception it lets out (a failed token exchange) goes to the handler.
Poll ==
    /\ UNCHANGED extVars
    /\ UNCHANGED <<commands_run, stream_events>>
    /\ pc = "poll"
    /\ \E e \in EnvChoices :
         LET batch == Batch(unique_streamers, i)
             r == get_live_streams(batch, access_token, token_expires_at, now, upstream, e)
             names == {x.user_login : x \in r.streams}
             asked == {Lower(batch[n]) : n \in 1..Len(batch)}
         IN  /\ CleanCall(r) \/ faults < MaxFaults
             /\ faults' = IF CleanCall(r) THEN faults ELSE faults + 1
             /\ access_token' = r.token
             /\ token_expires_at' = r.expires
             /\ call' = [f \in DOMAIN NoCall |-> r[f]]
             /\ cyc_calls' = cyc_calls + 1
             /\ cyc_asked' = Append(cyc_asked, batch)
             /\ cyc_nonauth' = IF cyc_nonauth = 0 /\ r.first \in {"other", "exception"}
                                THEN cyc_calls + 1 ELSE cyc_nonauth
             /\ IF r.raised
                THEN /\ pc' = "except"
                     /\ cyc_raised' = TRUE
                     /\ live_streams' = <<>>
                     /\ UNCHANGED <<cyc_live, cyc_missing, observed_live>>
                ELSE /\ pc' = "process"
                     /\ live_streams' \in Perms(r.streams)
                     /\ cyc_live' = cyc_live \cup names
                     /\ cyc_missing' = cyc_missing \cup ((asked \cap live_streamers) \ names)
                     /\ observed_live' = (observed_live \ asked) \cup names
                     /\ UNCHANGED cyc_raised
    /\ k' = 1
    /\ UNCHANGED <<streamers, unique_streamers, i, cur_stream, monitoring_servers, j,
                   cleanup_name, cleanup_servers>>
    /\ UNCHANGED <<cycle_sent, cyc_new, cyc_old, cyc_failed_send, alert_requested,
                   cyc_deletions>>
    /\ UNCHANGED <<dbVars, discordVars, twitchVars, botVars, prev_live, prev_raised,
                   sess_suppressed, sess_sent, sess_messages>>

\* check_streams, lines 97-123: one record of live_streams, up to the fan-out.
Process ==
    /\ UNCHANGED extVars
    /\ UNCHANGED boundVars
    /\ pc = "process"
    /\ IF k > Len(live_streams)
       THEN /\ pc' = "offline"
            /\ j' = 1
            /\ UNCHANGED <<k, cur_stream, monitoring_servers, live_streamers, cyc_new,
                           cyc_old, sess_suppressed>>
       ELSE LET stream == live_streams[k]
                streamer_name == stream.user_login
                untracked == streamer_name \notin live_streamers
                recent == now - stream.started_at <= RECENCY_SECONDS
            IN  /\ k' = k + 1
                /\ j' = j
                /\ cyc_new' = IF untracked /\ recent
                              THEN cyc_new \cup {streamer_name} ELSE cyc_new
                /\ cyc_old' = IF untracked /\ ~recent
                              THEN cyc_old \cup {streamer_name} ELSE cyc_old
                /\ sess_suppressed' = IF untracked /\ ~recent
                                      THEN sess_suppressed \cup {streamer_name}
                                      ELSE sess_suppressed
                /\ IF AlreadyNotified(streamer_name, live_streamers)
                   THEN UNCHANGED <<pc, cur_stream, monitoring_servers, live_streamers>>
                   ELSE IF IsTooOld(stream, now)
                   THEN /\ live_streamers' = MarkSeen(live_streamers, streamer_name)
                        /\ UNCHANGED <<pc, cur_stream, monitoring_servers>>
                   ELSE /\ live_streamers' = MarkSeen(live_streamers, streamer_name)
                        /\ cur_stream' = stream
                        /\ monitoring_servers' = MonitoringServers(streamers, streamer_name)
                        /\ pc' = IF MonitoringServers(streamers, streamer_name) = {}
                                 THEN "process" ELSE "send"
    /\ UNCHANGED <<streamers, unique_streamers, i, live_streams, cleanup_name,
                   cleanup_servers, loop_running>>
    /\ call' = NoCall
    /\ UNCHANGED <<cycle_sent, cyc_live, cyc_missing, cyc_failed_send, cyc_raised,
                   alert_requested, cyc_calls, cyc_nonauth, cyc_deletions,
                   cyc_asked>>
    /\ UNCHANGED <<dbVars, discordVars, twitchVars, tokenVars, prev_live, prev_raised,
                   observed_live, sess_sent, sess_messages>>

\* check_streams, lines 126-127, with send_notification (lines 158-236) for one
\* of the monitoring servers: the channel is missing (owner alert, return), the
\* send is forbidden or fails in transport (logged), or the message is sent
\* and, with auto-delete on, its id saved.
Send ==
    /\ UNCHANGED extVars
    /\ UNCHANGED <<commands_run, stream_events>>
    /\ pc = "send"
    /\ \E server_data \in monitoring_servers, outcome \in SendOutcomes :
         LET g == server_data.guild_id
             login == Lower(cur_stream.user_login)
             rest == monitoring_servers \ {server_data}
             message_id == Snowflake(now, g, login)
         IN  /\ outcome # "sent" => faults < MaxFaults
             /\ faults' = IF outcome = "sent" THEN faults ELSE faults + 1
             /\ cycle_sent' = [cycle_sent EXCEPT ![<<g, login>>] = @ + 1]
             /\ IF outcome = "sent"
                THEN /\ discord_messages' = discord_messages \cup {message_id}
                     /\ notification_messages' =
                          IF get_auto_delete(g)
                          THEN notification_messages \cup
                                 {[guild_id |-> g, streamer_name |-> login,
                                   channel_id |-> server_data.channel_id,
                                   message_id |-> message_id]}
                          ELSE notification_messages
                     /\ sess_sent' = [sess_sent EXCEPT ![<<g, login>>] = @ + 1]
                     /\ sess_messages' = sess_messages \cup
                          {[guild_id |-> g, streamer_name |-> login,
                            message_id |-> message_id,
                            auto_delete |-> get_auto_delete(g)]}
                     /\ UNCHANGED cyc_failed_send
                ELSE /\ cyc_failed_send' = cyc_failed_send \cup {server_data}
                     /\ UNCHANGED <<discord_messages, notification_messages,
                                    sess_sent, sess_messages>>
             /\ IF SendRaises(outcome)
                THEN /\ pc' = "except"
                     /\ cyc_raised' = TRUE
                     /\ monitoring_servers' = {}
                ELSE /\ pc' = IF rest = {} THEN "process" ELSE "send"
                     /\ monitoring_servers' = rest
                     /\ UNCHANGED cyc_raised
    /\ UNCHANGED <<streamers, unique_streamers, i, live_streams, k, cur_stream, j,
                   cleanup_name, cleanup_servers>>
    /\ UNCHANGED <<cyc_new, cyc_old, cyc_live, cyc_missing, alert_requested, cyc_calls,
                   cyc_nonauth, call, cyc_deletions,
                   cyc_asked>>
    /\ UNCHANGED <<monitored_streamers, auto_delete, twitchVars, tokenVars, botVars,
                   prev_live, prev_raised, observed_live, sess_suppressed>>

\* A line 134 that finds no name offline: C4 does not hold under it.
WentOfflineNever(streamer, live, live_names) == FALSE

\* check_streams, line 134: a tracked name the live batch does not hold.
WentOffline(streamer, live, live_names) == streamer \in live /\ streamer \notin live_names

\* check_streams, lines 130-139, one name of batch_lower; for a name that went
\* offline, the head of delete_offline_notifications (lines 242-246) as well.
OfflineCheck ==
    /\ UNCHANGED extVars
    /\ UNCHANGED boundVars
    /\ pc = "offline"
    /\ LET batch == Batch(unique_streamers, i)
           live_names == {Lower(live_streams[n].user_login) : n \in 1..Len(live_streams)}
       IN  IF j > Len(batch)
           THEN /\ i' = i + BatchSize
                /\ pc' = IF i + BatchSize < Len(unique_streamers) THEN "poll" ELSE "done"
                /\ j' = 1
                /\ live_streams' = <<>>
                /\ k' = 1
                /\ UNCHANGED <<live_streamers, cleanup_name, cleanup_servers>>
           ELSE LET streamer == Lower(batch[j])
                IN  /\ j' = j + 1
                    /\ UNCHANGED <<i, live_streams, k>>
                    /\ IF WentOffline(streamer, live_streamers, live_names)
                       THEN /\ live_streamers' = live_streamers \ {streamer}
                            /\ cleanup_name' = streamer
                            /\ cleanup_servers' =
                                 MonitoringServers(monitored_streamers, streamer)
                            /\ pc' = IF MonitoringServers(monitored_streamers, streamer) = {}
                                     THEN "offline" ELSE "cleanup"
                       ELSE UNCHANGED <<pc, live_streamers, cleanup_name, cleanup_servers>>
    /\ UNCHANGED <<streamers, unique_streamers, cur_stream, monitoring_servers,
                   loop_running>>
    /\ UNCHANGED <<dbVars, discordVars, twitchVars, tokenVars, cycVars, histVars>>

\* delete_offline_notifications, lines 258-270: how the deletion of one recorded
\* message ends.  D holds the deletions that succeed; a message that is no longer
\* in Discord ends in NotFound; the others end Forbidden, without a channel or
\* in another error.
DeleteOutcome(m, D) ==
    IF m \in D THEN "deleted"
    ELSE IF m \notin discord_messages THEN "not_found"
    ELSE "failed"

\* A delete_offline_notifications that clears only the records of the messages
\* it deleted: C12 does not hold under it.
CleanupKeepsFailed ==
    /\ UNCHANGED extVars
    /\ UNCHANGED boundVars
    /\ pc = "cleanup"
    /\ \E server_data \in cleanup_servers :
         LET guild_id == server_data.guild_id
             messages == get_notification_messages(guild_id, cleanup_name)
             ids == {m.message_id : m \in messages}
             rest == cleanup_servers \ {server_data}
         IN  /\ IF get_auto_delete(guild_id)
                THEN \E D \in SUBSET (ids \cap discord_messages) :
                          /\ discord_messages' = discord_messages \ D
                          /\ cyc_deletions' = cyc_deletions \cup
                               {[message_id |-> m, outcome |-> DeleteOutcome(m, D)] :
                                   m \in ids}
                          /\ notification_messages' = notification_messages \
                               {m \in messages : m.message_id \in D}
                ELSE UNCHANGED <<discord_messages, notification_messages,
                                 cyc_deletions>>
             /\ cleanup_servers' = rest
             /\ pc' = IF rest = {} THEN "offline" ELSE "cleanup"
    /\ UNCHANGED <<streamers, unique_streamers, i, live_streams, k, cur_stream,
                   monitoring_servers, j, cleanup_name>>
    /\ UNCHANGED <<cycle_sent, cyc_new, cyc_old, cyc_live, cyc_missing, cyc_failed_send,
                   cyc_raised, alert_requested, cyc_calls, cyc_nonauth, call,
                   cyc_asked>>
    /\ UNCHANGED <<monitored_streamers, auto_delete, twitchVars,
                   tokenVars, botVars, histVars>>

\* delete_offline_notifications, lines 248-273, for one monitoring server: with
\* auto-delete on, every recorded message is fetched and deleted (D holds the
\* deletions that succeed; the others end NotFound, Forbidden, without a
\* channel or in another error) and the records of the pair are removed.
Cleanup ==
    /\ UNCHANGED extVars
    /\ UNCHANGED boundVars
    /\ pc = "cleanup"
    /\ \E server_data \in cleanup_servers :
         LET guild_id == server_data.guild_id
             messages == get_notification_messages(guild_id, cleanup_name)
             ids == {m.message_id : m \in messages}
             rest == cleanup_servers \ {server_data}
         IN  /\ IF get_auto_delete(guild_id)
                THEN /\ \E D \in SUBSET (ids \cap discord_messages) :
                          /\ discord_messages' = discord_messages \ D
                          /\ cyc_deletions' = cyc_deletions \cup
                               {[message_id |-> m, outcome |-> DeleteOutcome(m, D)] :
                                   m \in ids}
                     /\ notification_messages' = notification_messages \ messages
                ELSE UNCHANGED <<discord_messages, notification_messages,
                                 cyc_deletions>>
             /\ cleanup_servers' = rest
             /\ pc' = IF rest = {} THEN "offline" ELSE "cleanup"
    /\ UNCHANGED <<streamers, unique_streamers, i, live_streams, k, cur_stream,
                   monitoring_servers, j, cleanup_name>>
    /\ UNCHANGED <<cycle_sent, cyc_new, cyc_old, cyc_live, cyc_missing, cyc_failed_send,
                   cyc_raised, alert_requested, cyc_calls, cyc_nonauth, call,
                   cyc_asked>>
    /\ UNCHANGED <<monitored_streamers, auto_delete, twitchVars,
                   tokenVars, botVars, histVars>>

\* A check_streams without the handler of lines 141-151: the exception leaves
\* the task and tasks.loop stops it.  C8 does not hold under it.
HandleCycleErrorEscapes ==
    /\ UNCHANGED extVars
    /\ UNCHANGED boundVars
    /\ pc = "except"
    /\ pc' = "done"
    /\ loop_running' = FALSE
    /\ UNCHANGED <<streamers, unique_streamers, i, live_streams, k, cur_stream,
                   monitoring_servers, j, cleanup_name, cleanup_servers>>
    /\ UNCHANGED <<live_streamers, cycVars, dbVars, discordVars, twitchVars, tokenVars,
                   histVars>>

\* check_streams, lines 141-151: the handler logs and calls send_owner_alert,
\* which returns without a DM while BOT_OWNER_ID is 0 (lines 294-296) and
\* lets no exception out (lines 334-337); check_streams returns normally.
HandleCycleError ==
    /\ UNCHANGED extVars
    /\ UNCHANGED boundVars
    /\ pc = "except"
    /\ pc' = "done"
    /\ alert_requested' = TRUE
    /\ UNCHANGED <<streamers, unique_streamers, i, live_streams, k, cur_stream,
                   monitoring_servers, j, cleanup_name, cleanup_servers>>
    /\ UNCHANGED <<cycle_sent, cyc_new, cyc_old, cyc_live, cyc_missing, cyc_failed_send,
                   cyc_raised, cyc_calls, cyc_nonauth, call, cyc_deletions,
                   cyc_asked>>
    /\ UNCHANGED <<dbVars, discordVars, twitchVars, tokenVars, botVars, histVars>>

\* tasks.loop(seconds=CHECK_INTERVAL_SECONDS): the cycle has returned and the
\* loop sleeps until the next tick.
Sleep ==
    /\ UNCHANGED extVars
    /\ UNCHANGED boundVars
    /\ pc = "done"
    /\ now + CheckInterval <= MaxTime
    /\ now' = now + CheckInterval
    /\ pc' = "idle"
    /\ ResetLocals
    /\ ResetCycleHistory
    /\ prev_live' = cyc_live
    /\ prev_raised' = cyc_raised
    /\ UNCHANGED <<upstream, dbVars, discordVars, tokenVars, botVars, observed_live,
                   sess_suppressed, sess_sent, sess_messages>>

Next ==
    \/ \E g \in Guilds, name \in NameInputs : add_streamer(g, name)
    \/ \E g \in Guilds, name \in NameInputs : remove_streamer(g, name)
    \/ \E g \in Guilds, enabled \in BOOLEAN : set_auto_delete(g, enabled)
    \/ \E s \in Streamers, started_at \in {LongAgo, now} : GoLive(s, started_at)
    \/ \E s \in Streamers : GoOffline(s)
    \/ \E m \in discord_messages : DeleteElsewhere(m)
    \/ StartCycle
    \/ StartCycleStoreError
    \/ Poll
    \/ Process
    \/ Send
    \/ OfflineCheck
    \/ Cleanup
    \/ HandleCycleError
    \/ Sleep

Spec == Init /\ [][Next]_vars

\* =============================================================== TokenSpec
\* get_access_token on its own: calls at any reading of the clock, with any
\* answer of the token endpoint.

\* expires_in values the token endpoint answers with in TokenSpec.
TokenLifetimes == {60, 90, 150}

\* What TokenSpec leaves alone.
tokenFrame == <<dbVars, discordVars, upstream, botVars, localVars, cycVars, histVars,
                boundVars, storeVars, alertVars, guildVars, cleanupVars, recencyVars,
                roleVars>>

\* One await of get_access_token (twitch_api.py 28-55).
GetAccessToken ==
    /\ \E ex \in {"ok", "fail"}, expires_in \in TokenLifetimes :
         LET r == get_access_token(access_token, token_expires_at, now, ex, expires_in)
         IN  /\ access_token' = r.token
             /\ token_expires_at' = r.expires
             /\ tok_call' = [had_token |-> access_token # NoToken,
                             had_expiry |-> token_expires_at,
                             at |-> now,
                             token |-> r.token,
                             expires |-> r.expires,
                             expires_in |-> expires_in,
                             exchanges |-> IF r.exchanged THEN 1 ELSE 0,
                             raised |-> r.raised]
    /\ UNCHANGED <<now, tokenFrame>>

\* datetime.utcnow() moves on.
TokenTick ==
    /\ now + TokenStep <= MaxTokenTicks * TokenStep
    /\ now' = now + TokenStep
    /\ UNCHANGED <<tokenVars, tok_call, tokenFrame>>

TokenNext == GetAccessToken \/ TokenTick

TokenSpec == Init /\ [][TokenNext]_vars


\* =============================================================== StoreSpec
\* The store behind the configuration commands: the subscriptions with all
\* their columns, the server_settings rows, and the command handlers that call
\* the store.  Spec carries of a subscription the three columns that
\* get_all_streamers selects; here a row has custom_channel_id as well.

\* interaction.channel_id and the channel argument of /setchannel.
Channels == {10, 20}
\* A channel of its own for one subscription.
CustomChannels == {30}
\* Colours a server sets with /setcolor.
Colors == {0, 255}

HasSettings(settings, g) == settings[g] # NoSettings

\* A add_streamer that compares and stores the name as it was typed: C20 does
\* not hold under it.
db_add_streamer_CaseSensitive(rows, g, name, channel_id, custom_channel_id) ==
    IF \E r \in rows : r.guild_id = g /\ r.streamer_name = name
    THEN [rows |-> rows, returned |-> FALSE]
    ELSE [rows |-> rows \cup {[guild_id |-> g, streamer_name |-> name,
                               channel_id |-> channel_id,
                               custom_channel_id |-> custom_channel_id]},
          returned |-> TRUE]

\* Database.add_streamer: INSERT of (guild, lower(name), channel, custom
\* channel); UNIQUE(guild_id, streamer_name) rejects a second row, and the
\* IntegrityError is answered False.
db_add_streamer(rows, g, name, channel_id, custom_channel_id) ==
    IF \E r \in rows : r.guild_id = g /\ r.streamer_name = Lower(name)
    THEN [rows |-> rows, returned |-> FALSE]
    ELSE [rows |-> rows \cup {[guild_id |-> g, streamer_name |-> Lower(name),
                               channel_id |-> channel_id,
                               custom_channel_id |-> custom_channel_id]},
          returned |-> TRUE]

\* Database.remove_streamer: DELETE of (guild, lower(name)); True if a row
\* was deleted.
db_remove_streamer(rows, g, name) ==
    [rows |-> {r \in rows : ~(r.guild_id = g /\ r.streamer_name = Lower(name))},
     returned |-> \E r \in rows : r.guild_id = g /\ r.streamer_name = Lower(name)]

\* Database.get_all_streamers: SELECT guild_id, streamer_name, channel_id.
db_get_all_streamers(rows) ==
    {[guild_id |-> r.guild_id, streamer_name |-> r.streamer_name,
      channel_id |-> r.channel_id] : r \in rows}

\* send_notification, line 161: the channel a notification of the
\* subscription (g, name) is sent to.
NotificationChannel(rows, g, name) ==
    {server_data.channel_id : server_data \in
        {x \in db_get_all_streamers(rows) : x.guild_id = g /\ x.streamer_name = name}}

\* Database.set_notification_channel, the settings row: upsert of
\* notification_channel_id; a new row takes the column defaults.
db_set_notification_channel_settings(settings, g, channel_id) ==
    [settings EXCEPT ![g] =
        IF HasSettings(settings, g)
        THEN [@ EXCEPT !.notification_channel_id = channel_id]
        ELSE [notification_channel_id |-> channel_id,
              embed_color |-> EMBED_COLOR_COLUMN_DEFAULT,
              auto_delete_notifications |-> 0]]

\* Database.set_notification_channel, the subscriptions: UPDATE channel_id
\* WHERE guild_id = ? AND custom_channel_id IS NULL.
db_set_notification_channel_rows(rows, g, channel_id) ==
    {IF r.guild_id = g /\ r.custom_channel_id = Null
     THEN [r EXCEPT !.channel_id = channel_id]
     ELSE r : r \in rows}

\* Database.get_notification_channel: row[0] if row else None.
db_get_notification_channel(settings, g) ==
    IF HasSettings(settings, g) THEN settings[g].notification_channel_id ELSE Null

\* Database.set_embed_color: a new row has notification_channel_id 0.
db_set_embed_color(settings, g, color) ==
    [settings EXCEPT ![g] =
        IF HasSettings(settings, g)
        THEN [@ EXCEPT !.embed_color = color]
        ELSE [notification_channel_id |-> 0, embed_color |-> color,
              auto_delete_notifications |-> 0]]

\* Database.get_embed_color: row[0] if row and row[0] else 0x00FFFF.
db_get_embed_color(settings, g) ==
    IF HasSettings(settings, g) /\ settings[g].embed_color \notin {Null, 0}
    THEN settings[g].embed_color
    ELSE EMBED_COLOR_FALLBACK

\* Database.set_auto_delete on the settings row: a new row has
\* notification_channel_id 0 and the default colour.
db_set_auto_delete(settings, g, enabled) ==
    [settings EXCEPT ![g] =
        IF HasSettings(settings, g)
        THEN [@ EXCEPT !.auto_delete_notifications = IF enabled THEN 1 ELSE 0]
        ELSE [notification_channel_id |-> 0,
              embed_color |-> EMBED_COLOR_COLUMN_DEFAULT,
              auto_delete_notifications |-> IF enabled THEN 1 ELSE 0]]

\* What StoreSpec leaves alone.
storeFrame == <<auto_delete, notification_messages, discordVars, twitchVars, tokenVars,
                botVars, localVars, cycVars, histVars, boundVars, tok_call, alertVars,
                guildVars, cleanupVars, recencyVars, roleVars>>

StoreCall ==
    /\ store_calls < MaxStoreCalls
    /\ store_calls' = store_calls + 1
    /\ UNCHANGED storeFrame

\* /addstreamer, lines 473-479: the handler reads the default channel, makes
\* the channel of the interaction the default if there is none, and is
\* suspended in defer() and get_user().
AddStreamerBegin(g, name, interaction_channel) ==
    /\ StoreCall
    /\ pending_add[g] = NoPending
    /\ LET channel_id == db_get_notification_channel(server_settings, g)
       IN  IF channel_id \in {Null, 0}
           THEN /\ server_settings' =
                     db_set_notification_channel_settings(server_settings, g,
                                                          interaction_channel)
                /\ monitored_streamers' =
                     db_set_notification_channel_rows(monitored_streamers, g,
                                                      interaction_channel)
                /\ pending_add' = [pending_add EXCEPT ![g] =
                                      [name |-> name, channel_id |-> interaction_channel]]
           ELSE /\ pending_add' = [pending_add EXCEPT ![g] =
                                      [name |-> name, channel_id |-> channel_id]]
                /\ UNCHANGED <<server_settings, monitored_streamers>>
    /\ UNCHANGED <<cmd_result, color_set>>

\* /addstreamer, lines 481-491: get_user has answered; an unknown name ends
\* the command, a known one is inserted under its login with the channel read
\* before the awaits.
AddStreamerInsert(g, found) ==
    /\ StoreCall
    /\ pending_add[g] # NoPending
    /\ pending_add' = [pending_add EXCEPT ![g] = NoPending]
    /\ IF found
       THEN LET r == db_add_streamer(monitored_streamers, g, pending_add[g].name,
                                     pending_add[g].channel_id, Null)
            IN  /\ monitored_streamers' = r.rows
                /\ cmd_result' = [seq |-> store_calls + 1, op |-> "add", guild_id |-> g,
                                  name |-> pending_add[g].name, returned |-> r.returned]
       ELSE UNCHANGED <<monitored_streamers, cmd_result>>
    /\ UNCHANGED <<server_settings, color_set>>

\* Database.add_streamer with a channel of its own for the subscription.
AddStreamerCustom(g, name, channel_id, custom_channel_id) ==
    /\ StoreCall
    /\ LET r == db_add_streamer(monitored_streamers, g, name, channel_id,
                                custom_channel_id)
       IN  /\ monitored_streamers' = r.rows
           /\ cmd_result' = [seq |-> store_calls + 1, op |-> "add", guild_id |-> g,
                             name |-> name, returned |-> r.returned]
    /\ UNCHANGED <<server_settings, pending_add, color_set>>

\* /removestreamer, line 516.
RemoveStreamer(g, name) ==
    /\ StoreCall
    /\ LET r == db_remove_streamer(monitored_streamers, g, name)
       IN  /\ monitored_streamers' = r.rows
           /\ cmd_result' = [seq |-> store_calls + 1, op |-> "remove", guild_id |-> g,
                             name |-> name, returned |-> r.returned]
    /\ UNCHANGED <<server_settings, pending_add, color_set>>

\* /setchannel, line 606.
SetChannel(g, channel_id) ==
    /\ StoreCall
    /\ server_settings' = db_set_notification_channel_settings(server_settings, g, channel_id)
    /\ monitored_streamers' = db_set_notification_channel_rows(monitored_streamers, g,
                                                              channel_id)
    /\ UNCHANGED <<pending_add, cmd_result, color_set>>

\* /setcolor, line 996.
SetColor(g, color) ==
    /\ StoreCall
    /\ server_settings' = db_set_embed_color(server_settings, g, color)
    /\ color_set' = color_set \cup {g}
    /\ UNCHANGED <<monitored_streamers, pending_add, cmd_result>>

\* /resetcolor, line 1031.
ResetColor(g) ==
    /\ StoreCall
    /\ server_settings' = db_set_embed_color(server_settings, g, RESET_COLOR)
    /\ color_set' = color_set \cup {g}
    /\ UNCHANGED <<monitored_streamers, pending_add, cmd_result>>

\* /autodelete, line 1054.
SetAutoDelete(g, enabled) ==
    /\ StoreCall
    /\ server_settings' = db_set_auto_delete(server_settings, g, enabled)
    /\ UNCHANGED <<monitored_streamers, pending_add, cmd_result, color_set>>

StoreNext ==
    \/ \E g \in Guilds, name \in NameInputs, c \in Channels : AddStreamerBegin(g, name, c)
    \/ \E g \in Guilds, found \in BOOLEAN : AddStreamerInsert(g, found)
    \/ \E g \in Guilds, name \in NameInputs, c \in Channels,
          cc \in CustomChannels : AddStreamerCustom(g, name, c, cc)
    \/ \E g \in Guilds, name \in NameInputs : RemoveStreamer(g, name)
    \/ \E g \in Guilds, c \in Channels : SetChannel(g, c)
    \/ \E g \in Guilds, color \in Colors : SetColor(g, color)
    \/ \E g \in Guilds : ResetColor(g)
    \/ \E g \in Guilds, enabled \in BOOLEAN : SetAutoDelete(g, enabled)

StoreSpec == Init /\ [][StoreNext]_vars


\* =============================================================== GuildSpec
\* The four tables that hold rows of a server, the store calls that fill them,
\* and on_guild_remove.

\* Ids of notification messages, and cleanup intervals in hours.
MessageIds == {101, 102}
IntervalHours == {24}

\* Database.save_notification_message: INSERT of (guild, lower(name), channel,
\* message); UNIQUE(guild_id, streamer_name, message_id) rejects a second row.
db_save_notification_message(rows, g, name, channel_id, message_id) ==
    IF \E r \in rows : /\ r.guild_id = g /\ r.streamer_name = Lower(name)
                       /\ r.message_id = message_id
    THEN rows
    ELSE rows \cup {[guild_id |-> g, streamer_name |-> Lower(name),
                     channel_id |-> channel_id, message_id |-> message_id]}

\* Database.add_cleanup_config: upsert on (guild_id, channel_id).
db_add_cleanup_config(rows, g, channel_id, interval_hours, keep_pinned) ==
    {r \in rows : ~(r.guild_id = g /\ r.channel_id = channel_id)}
        \cup {[guild_id |-> g, channel_id |-> channel_id,
               interval_hours |-> interval_hours,
               keep_pinned |-> IF keep_pinned THEN 1 ELSE 0]}

\* The four tables as one value.
Store == [monitored_streamers |-> monitored_streamers,
          server_settings |-> server_settings,
          notification_messages |-> notification_messages,
          cleanup_configs |-> cleanup_configs]

\* The tables of the store that hold a row of the guild.
TablesOf(store, g) ==
    {t \in {"monitored_streamers", "notification_messages", "cleanup_configs"} :
        \E r \in store[t] : r.guild_id = g}
    \cup (IF HasSettings(store.server_settings, g) THEN {"server_settings"} ELSE {})

\* A cleanup_guild without the DELETE of cleanup_configs: C21 does not hold
\* under it.
db_cleanup_guild_KeepsConfigs(store, g) ==
    [monitored_streamers |-> {r \in store.monitored_streamers : r.guild_id # g},
     server_settings |-> [store.server_settings EXCEPT ![g] = NoSettings],
     notification_messages |-> {r \in store.notification_messages : r.guild_id # g},
     cleanup_configs |-> store.cleanup_configs]

\* Database.cleanup_guild: DELETE ... WHERE guild_id = ? on each table.
db_cleanup_guild(store, g) ==
    [monitored_streamers |-> {r \in store.monitored_streamers : r.guild_id # g},
     server_settings |-> [store.server_settings EXCEPT ![g] = NoSettings],
     notification_messages |-> {r \in store.notification_messages : r.guild_id # g},
     cleanup_configs |-> {r \in store.cleanup_configs : r.guild_id # g}]

\* What GuildSpec leaves alone.
guildFrame == <<auto_delete, discordVars, twitchVars, tokenVars, botVars, localVars,
                cycVars, histVars, boundVars, tok_call, pending_add, cmd_result,
                color_set, store_calls, alertVars, cleanupVars, recencyVars, roleVars>>

GuildCall ==
    /\ guild_calls < MaxGuildCalls
    /\ guild_calls' = guild_calls + 1
    /\ UNCHANGED guildFrame

\* Database.add_streamer.
GuildAddStreamer(g, name, channel_id) ==
    /\ GuildCall
    /\ monitored_streamers' =
          db_add_streamer(monitored_streamers, g, name, channel_id, Null).rows
    /\ UNCHANGED <<server_settings, notification_messages, cleanup_configs, guild_call>>

\* Database.set_auto_delete.
GuildSetAutoDelete(g, enabled) ==
    /\ GuildCall
    /\ server_settings' = db_set_auto_delete(server_settings, g, enabled)
    /\ UNCHANGED <<monitored_streamers, notification_messages, cleanup_configs,
                   guild_call>>

\* Database.save_notification_message.
GuildSaveNotification(g, name, channel_id, message_id) ==
    /\ GuildCall
    /\ notification_messages' =
          db_save_notification_message(notification_messages, g, name, channel_id,
                                       message_id)
    /\ UNCHANGED <<monitored_streamers, server_settings, cleanup_configs, guild_call>>

\* Database.add_cleanup_config.
GuildAddCleanupConfig(g, channel_id, interval_hours, keep_pinned) ==
    /\ GuildCall
    /\ cleanup_configs' =
          db_add_cleanup_config(cleanup_configs, g, channel_id, interval_hours,
                                keep_pinned)
    /\ UNCHANGED <<monitored_streamers, server_settings, notification_messages,
                   guild_call>>

\* on_guild_remove, lines 65-72: cleanup_guild(guild.id).
OnGuildRemove(g) ==
    /\ GuildCall
    /\ LET after == db_cleanup_guild(Store, g)
       IN  /\ monitored_streamers' = after.monitored_streamers
           /\ server_settings' = after.server_settings
           /\ notification_messages' = after.notification_messages
           /\ cleanup_configs' = after.cleanup_configs
    /\ guild_call' = [seq |-> guild_calls + 1, guild_id |-> g,
                      tables |-> TablesOf(Store, g)]

GuildNext ==
    \/ \E g \in Guilds, name \in Streamers : GuildAddStreamer(g, name, ChannelOf(g))
    \/ \E g \in Guilds, enabled \in BOOLEAN : GuildSetAutoDelete(g, enabled)
    \/ \E g \in Guilds, message_id \in MessageIds :
          GuildSaveNotification(g, "alice", ChannelOf(g), message_id)
    \/ \E g \in Guilds, interval_hours \in IntervalHours, keep_pinned \in BOOLEAN :
          GuildAddCleanupConfig(g, ChannelOf(g), interval_hours, keep_pinned)
    \/ \E g \in Guilds : OnGuildRemove(g)

GuildSpec == Init /\ [][GuildNext]_vars


\* ============================================================= CleanupSpec
\* cleanup_channel on one channel, called by the hourly cleanup_channels with
\* the configuration of the channel, while users pin, unpin and delete
\* messages and time passes.  now is datetime.utcnow() in seconds.

\* interval_hours of a configuration.
CleanupIntervals == {12, 24}

\* channel.history(limit=1000, before=cutoff_time): the messages of the
\* channel created before the cutoff.
History(messages, before) == {m \in messages : CreatedAt(m) < before}

\* A filter that skips no message: C22 as amended does not hold under it.
MessagesToDeleteAll(listed, pins, keep) == listed

\* cleanup_channel, lines 410-415: a listed message is skipped if keep_pinned
\* and message.pinned.
MessagesToDelete(listed, pins, keep) ==
    {m \in listed : ~(keep /\ m \in pins)}

\* (now - m.created_at).days
AgeDays(t, message) == (t - CreatedAt(message)) \div SECONDS_PER_DAY

\* What CleanupSpec leaves alone.
cleanupFrame == <<dbVars, discordVars, upstream, tokenVars, botVars, localVars, cycVars,
                  histVars, boundVars, tok_call, storeVars, alertVars, guildVars,
                  recencyVars, roleVars>>

\* cleanup_channel, lines 383-426.  The channel is not found or the bot lacks
\* a permission: nothing is listed.  Otherwise the cutoff is computed, the
\* history before it is listed and filtered; with nothing to delete the call
\* returns.  Lines 425-426 subtract message.created_at from utcnow(): where
\* the library hands out timezone-aware datetimes the subtraction raises, and
\* the handler of line 452 ends the call before any deletion; where they are
\* naive the list is split by age.
CleanupBegin(interval_hours, keep, reachable, aware) ==
    /\ cleanup_pc = "idle"
    /\ job_deleted' = {}
    /\ job_keep_pinned' = keep
    /\ cutoff_time' = now - interval_hours * SECONDS_PER_HOUR
    /\ LET listed == History(channel_messages, now - interval_hours * SECONDS_PER_HOUR)
           messages_to_delete == MessagesToDelete(listed, pinned, keep)
           bulk == {m \in messages_to_delete : AgeDays(now, m) < BULK_DELETE_DAYS}
           individual == {m \in messages_to_delete : AgeDays(now, m) >= BULK_DELETE_DAYS}
       IN  IF ~reachable \/ messages_to_delete = {} \/ aware
           THEN /\ cleanup_pc' = "idle"
                /\ bulk_delete' = {}
                /\ individual_delete' = {}
                /\ listed_pinned' = IF reachable THEN listed \cap pinned ELSE {}
           ELSE /\ cleanup_pc' = IF bulk # {} THEN "bulk" ELSE "individual"
                /\ bulk_delete' = bulk
                /\ individual_delete' = individual
                /\ listed_pinned' = listed \cap pinned
    /\ UNCHANGED <<channel_messages, pinned, user_events, now, cleanupFrame>>

\* cleanup_channel, lines 429-432: await channel.delete_messages(batch).  A
\* failure is caught at line 449 or 452 and ends the call.
CleanupBulkDelete(ok) ==
    /\ cleanup_pc = "bulk"
    /\ IF ok
       THEN /\ channel_messages' = channel_messages \ bulk_delete
            /\ job_deleted' = job_deleted \cup (bulk_delete \cap channel_messages)
            /\ cleanup_pc' = IF individual_delete # {} THEN "individual" ELSE "idle"
            /\ UNCHANGED individual_delete
       ELSE /\ cleanup_pc' = "idle"
            /\ individual_delete' = {}
            /\ UNCHANGED <<channel_messages, job_deleted>>
    /\ bulk_delete' = {}
    /\ UNCHANGED <<pinned, cutoff_time, job_keep_pinned, listed_pinned, user_events, now,
                   cleanupFrame>>

\* cleanup_channel, lines 435-442: await message.delete() for one message of
\* individual_delete; NotFound and any other exception are caught and the loop
\* goes on.
CleanupIndividualDelete(message, ok) ==
    /\ cleanup_pc = "individual"
    /\ message \in individual_delete
    /\ individual_delete' = individual_delete \ {message}
    /\ cleanup_pc' = IF individual_delete = {message} THEN "idle" ELSE "individual"
    /\ IF ok /\ message \in channel_messages
       THEN /\ channel_messages' = channel_messages \ {message}
            /\ job_deleted' = job_deleted \cup {message}
       ELSE UNCHANGED <<channel_messages, job_deleted>>
    /\ UNCHANGED <<pinned, cutoff_time, job_keep_pinned, bulk_delete, listed_pinned,
                   user_events, now, cleanupFrame>>

UserEvent ==
    /\ user_events < MaxUserEvents
    /\ user_events' = user_events + 1
    /\ UNCHANGED <<cleanup_pc, cutoff_time, job_keep_pinned, bulk_delete, individual_delete,
                   listed_pinned, job_deleted, now, cleanupFrame>>

\* A user pins or unpins a message of the channel.
UserPin(message) ==
    /\ UserEvent
    /\ message \in channel_messages
    /\ pinned' = IF message \in pinned THEN pinned \ {message} ELSE pinned \cup {message}
    /\ UNCHANGED channel_messages

\* A user deletes a message of the channel.
UserDelete(message) ==
    /\ UserEvent
    /\ message \in channel_messages
    /\ channel_messages' = channel_messages \ {message}
    /\ pinned' = pinned \ {message}

\* An hour passes: tasks.loop(hours=1).
CleanupTick ==
    /\ now < MaxCleanupTicks * SECONDS_PER_HOUR
    /\ now' = now + SECONDS_PER_HOUR
    /\ UNCHANGED <<cleanupVars, cleanupFrame>>

CleanupNext ==
    \/ \E interval_hours \in CleanupIntervals, keep \in BOOLEAN, reachable \in BOOLEAN,
          aware \in BOOLEAN : CleanupBegin(interval_hours, keep, reachable, aware)
    \/ \E ok \in BOOLEAN : CleanupBulkDelete(ok)
    \/ \E message \in Messages, ok \in BOOLEAN : CleanupIndividualDelete(message, ok)
    \/ \E message \in Messages : UserPin(message)
    \/ \E message \in Messages : UserDelete(message)
    \/ CleanupTick

CleanupSpec == Init /\ [][CleanupNext]_vars


\* ============================================================= RecencySpec
\* check_streams, one whole cycle per step, under a polling period read from
\* the environment, with one subscription that does not change and a stream
\* that stays live once it has started.  now is the reading of the clock at
\* the coming cycle; a stream starts between two cycles.

\* CHECK_INTERVAL_SECONDS: the default of config.py and a longer period.
CheckIntervals == {90, 400}

\* Seconds between a cycle and the start of a stream after it.
StartDelay == 10

\* get_all_streamers: server 1 subscribes to alice.
RecencyStreamers ==
    {[guild_id |-> 1, streamer_name |-> "alice", channel_id |-> ChannelOf(1)]}

\* What the upstream does to the call of a cycle: it answers, the streams
\* request fails, or the token exchange fails.
RecencyEnv ==
    {e \in EnvChoices : /\ e.ex2 = "ok" /\ e.st2 = "200" /\ e.ex3 = "ok"
                        /\ e.st1 \in {"200", "other"}
                        /\ e.ex1 = "fail" => e.st1 = "200"}

\* What RecencySpec leaves alone.
recencyFrame == <<dbVars, discordVars, loop_running, localVars, cycVars, histVars,
                  boundVars, tok_call, storeVars, alertVars, guildVars, cleanupVars,
                  roleVars>>

\* config.py, line 15: the period is read when the bot starts.
RecencyStart(interval) ==
    /\ check_interval = 0
    /\ check_interval' = interval
    /\ UNCHANGED <<attempted, observed, recency_cycles, upstream, now, tokenVars,
                   live_streamers, recencyFrame>>

\* The streamer starts a stream while the bot runs, StartDelay seconds after
\* the last cycle or at the moment of the coming one.
RecencyGoLive(s, early) ==
    /\ check_interval > 0
    /\ ~upstream[s].live
    /\ LET started_at == IF early THEN now - check_interval + StartDelay ELSE now
       IN  /\ started_at >= 0
           /\ upstream' = [upstream EXCEPT ![s] = LiveSince(started_at)]
    /\ attempted' = {p \in attempted : p[2] # s}
    /\ observed' = observed \ {s}
    /\ UNCHANGED <<check_interval, recency_cycles, now, tokenVars, live_streamers,
                   recencyFrame>>

\* check_streams, lines 76-139, and the sleep of tasks.loop: the names are
\* asked in one call; an exception goes to the handler of line 141; otherwise
\* every returned stream that is not tracked is marked, and notified to the
\* monitoring servers unless it is too old; then the asked names that are
\* tracked and were not returned are dropped.
RecencyCycle(e) ==
    /\ check_interval > 0
    /\ recency_cycles < MaxRecencyCycles
    /\ recency_cycles' = recency_cycles + 1
    /\ now' = now + check_interval
    /\ LET unique_names == {r.streamer_name : r \in RecencyStreamers}
           r == get_live_streams(CHOOSE q \in Perms(unique_names) : TRUE, access_token,
                                 token_expires_at, now, upstream, e)
           current_live_names == {x.user_login : x \in r.streams}
           fresh == {x \in r.streams : ~AlreadyNotified(x.user_login, live_streamers)}
           seen == live_streamers \cup UNION {MarkSeen({}, x.user_login) : x \in fresh}
           sent == {x \in fresh : ~IsTooOld(x, now)}
       IN  /\ access_token' = r.token
           /\ token_expires_at' = r.expires
           /\ IF r.raised
              THEN UNCHANGED <<live_streamers, attempted, observed>>
              ELSE /\ live_streamers' =
                        {n \in seen : ~(n \in unique_names /\ n \notin current_live_names)}
                   /\ attempted' = attempted \cup
                        UNION {{<<server_data.guild_id, x.user_login>> : server_data \in
                                   MonitoringServers(RecencyStreamers, x.user_login)} :
                               x \in sent}
                   /\ observed' = IF r.answered THEN observed \cup current_live_names
                                  ELSE observed
    /\ UNCHANGED <<check_interval, upstream, recencyFrame>>

RecencyNext ==
    \/ \E interval \in CheckIntervals : RecencyStart(interval)
    \/ \E s \in {r.streamer_name : r \in RecencyStreamers}, early \in BOOLEAN :
          RecencyGoLive(s, early)
    \/ \E e \in RecencyEnv : RecencyCycle(e)

RecencySpec == Init /\ [][RecencyNext]_vars


\* ================================================================ RoleSpec
\* reaction_roles.py: one picker of type "buttons" and the button
\* interactions of one member.

\* all_role_ids of the picker.
GroupRoles == {11, 12, 13}

\* max_roles of a picker: None, 1 or 2.
MaxRolesChoices == {Null, 1, 2}

\* _handle_button, line 413:
\* sum(1 for rid in all_role_ids if guild.get_role(rid) in member.roles).
CurrentCount(all_role_ids, roles) == Cardinality(all_role_ids \cap roles)

\* _handle_button, lines 412-420: the click is refused.
OverLimit(max_roles, all_role_ids, roles) ==
    /\ max_roles \notin {Null, 0}
    /\ all_role_ids # {}
    /\ CurrentCount(all_role_ids, roles) >= max_roles

\* What RoleSpec leaves alone.
roleFrame == <<dbVars, discordVars, twitchVars, tokenVars, botVars, localVars, cycVars,
               histVars, boundVars, tok_call, storeVars, alertVars, guildVars,
               cleanupVars, recencyVars>>

\* _build_view, lines 325-340: the buttons of a picker carry its max_roles and
\* only_add.
PickerCreate(max_roles, only_add) ==
    /\ picker = NoPicker
    /\ picker' = [max_roles |-> max_roles, only_add |-> only_add]
    /\ UNCHANGED <<member_roles, interactions, clicks, roleFrame>>

\* _handle_button, lines 396-421, up to its first await.  member.roles is what
\* the member holds when the interaction arrives.  A role the member holds is
\* removed unless only_add; another one is refused at the limit and granted
\* otherwise: the handler is suspended in remove_roles or add_roles.
ButtonClick(slot, role_id) ==
    /\ picker # NoPicker
    /\ clicks < MaxClicks
    /\ clicks' = clicks + 1
    /\ interactions[slot] = NoInteraction
    /\ interactions' =
          IF role_id \in member_roles
          THEN IF picker.only_add
               THEN interactions
               ELSE [interactions EXCEPT ![slot] = [role_id |-> role_id, await |-> "remove_roles"]]
          ELSE IF OverLimit(picker.max_roles, GroupRoles, member_roles)
               THEN interactions
               ELSE [interactions EXCEPT ![slot] = [role_id |-> role_id, await |-> "add_roles"]]
    /\ UNCHANGED <<picker, member_roles, roleFrame>>

\* _handle_button, lines 408 and 421-426: remove_roles or add_roles returns,
\* or raises Forbidden, and the handler answers the interaction.
ButtonComplete(slot, ok) ==
    /\ interactions[slot] # NoInteraction
    /\ interactions' = [interactions EXCEPT ![slot] = NoInteraction]
    /\ member_roles' =
          IF ~ok THEN member_roles
          ELSE IF interactions[slot].await = "add_roles"
          THEN member_roles \cup {interactions[slot].role_id}
          ELSE member_roles \ {interactions[slot].role_id}
    /\ UNCHANGED <<picker, clicks, roleFrame>>

RoleNext ==
    \/ \E max_roles \in MaxRolesChoices, only_add \in BOOLEAN : PickerCreate(max_roles, only_add)
    \/ \E slot \in Slots, role_id \in GroupRoles : ButtonClick(slot, role_id)
    \/ \E slot \in Slots, ok \in BOOLEAN : ButtonComplete(slot, ok)

RoleSpec == Init /\ [][RoleNext]_vars


\* =============================================================== AlertSpec
\* send_owner_alert, called by the two background tasks, each of which awaits
\* its call before it makes the next one.

\* BOT_OWNER_ID comes from the environment: not set, or the operator's id.
OwnerIds == {BOT_OWNER_ID, 7}

\* What AlertSpec leaves alone.
alertFrame == <<dbVars, discordVars, upstream, tokenVars, botVars, localVars, cycVars,
                histVars, boundVars, tok_call, storeVars, guildVars, cleanupVars,
                recencyVars, roleVars>>

\* send_owner_alert, lines 282-296: the key, the reading of the clock, the
\* cooldown test and the test of BOT_OWNER_ID; then the call is suspended in
\* fetch_user and owner.send.
AlertBegin(task, error_type, guild_id, owner) ==
    /\ alert_pending[task] = NoAlert
    /\ LET error_key == ErrorKey(error_type, guild_id)
           current_time == now
           ended(outcome) == [error_type |-> error_type, guild_id |-> guild_id,
                              current_time |-> current_time, outcome |-> outcome]
       IN  IF /\ error_alerts_sent[error_key] # Null
              /\ current_time - error_alerts_sent[error_key] < ALERT_COOLDOWN
           THEN /\ alert_call' = ended("suppressed")
                /\ UNCHANGED alert_pending
           ELSE IF owner = 0
           THEN /\ alert_call' = ended("no_owner")
                /\ UNCHANGED alert_pending
           ELSE /\ alert_pending' = [alert_pending EXCEPT ![task] =
                                        [error_type |-> error_type, guild_id |-> guild_id,
                                         current_time |-> current_time]]
                /\ UNCHANGED alert_call
    /\ UNCHANGED <<error_alerts_sent, alerts_delivered, now, alertFrame>>

\* send_owner_alert, lines 298-337: the DM is delivered and the key marked with
\* the reading of the clock taken at line 283, or the delivery fails
\* (discord.Forbidden or another exception) and nothing is marked.
AlertEnd(task, outcome) ==
    /\ alert_pending[task] # NoAlert
    /\ LET a == alert_pending[task]
           error_key == ErrorKey(a.error_type, a.guild_id)
       IN  /\ alert_pending' = [alert_pending EXCEPT ![task] = NoAlert]
           /\ alert_call' = [error_type |-> a.error_type, guild_id |-> a.guild_id,
                             current_time |-> a.current_time, outcome |-> outcome]
           /\ IF outcome = "delivered"
              THEN /\ Len(alerts_delivered) < MaxAlerts
                   /\ alerts_delivered' = Append(alerts_delivered, a)
                   /\ error_alerts_sent' =
                        [error_alerts_sent EXCEPT ![error_key] = a.current_time]
              ELSE UNCHANGED <<alerts_delivered, error_alerts_sent>>
    /\ UNCHANGED <<now, alertFrame>>

\* datetime.utcnow() moves on.
AlertTick ==
    /\ now + AlertStep <= MaxAlertTicks * AlertStep
    /\ now' = now + AlertStep
    /\ UNCHANGED <<alertVars, alertFrame>>

AlertNext ==
    \/ \E task \in AlertTasks, a \in UNION {AlertsOf(t) : t \in AlertTasks},
          owner \in OwnerIds :
            a \in AlertsOf(task) /\ AlertBegin(task, a[1], a[2], owner)
    \/ \E task \in AlertTasks, outcome \in {"delivered", "forbidden", "error"} :
            AlertEnd(task, outcome)
    \/ AlertTick

AlertSpec == Init /\ [][AlertNext]_vars

\* ================================================================== claims

\* The subscription rows check_streams read at line 79 hold one for (g, s).
SnapshotRow(g, s) == \E r \in streamers : r.guild_id = g /\ r.streamer_name = s

\* C1: when a cycle ends, every streamer that a poll of the cycle returned
\* live no more than 300 seconds after started_at, and that was not in
\* live_streamers when its record was processed, is in live_streamers, and
\* send_notification was invoked exactly once for each subscription row of it
\* that the cycle read (and for no other server).
C1_NewlyLiveNotifiedOncePerRow ==
    pc = "done" =>
        \A s \in cyc_new :
            /\ s \in live_streamers
            /\ \A g \in Guilds :
                 cycle_sent[<<g, s>>] = IF SnapshotRow(g, s) THEN 1 ELSE 0

\* A cycle has ended in which alice was newly live and both of her servers
\* were called once.
C1_Witness ==
    /\ pc = "done"
    /\ "alice" \in cyc_new
    /\ SnapshotRow(1, "alice") /\ SnapshotRow(2, "alice")
    /\ cycle_sent[<<1, "alice">>] = 1 /\ cycle_sent[<<2, "alice">>] = 1
    /\ "alice" \in live_streamers

\* C2: when the polls of two consecutive cycles both returned S live, the
\* second cycle invokes send_notification for S for no server and ends with S
\* in live_streamers.
C2_SecondPollSilent ==
    pc = "done" =>
        \A s \in prev_live \cap cyc_live :
            /\ s \in live_streamers
            /\ \A g \in Guilds : cycle_sent[<<g, s>>] = 0

\* alice was notified to server 1 in this stream, the last two cycles both got
\* her live, she is still subscribed and still inside the recency window.
C2_Witness ==
    /\ pc = "done"
    /\ "alice" \in prev_live \cap cyc_live
    /\ sess_sent[<<1, "alice">>] = 1
    /\ SnapshotRow(1, "alice")
    /\ upstream["alice"].live
    /\ now - upstream["alice"].started_at <= RECENCY_SECONDS

\* C3: a streamer that a poll returns live more than 300 seconds after
\* started_at while it is not in live_streamers is added to live_streamers in
\* that cycle, and send_notification is invoked for it neither in that cycle
\* nor in any later cycle of the same stream.
C3_OldStreamSuppressed ==
    /\ cyc_old \subseteq live_streamers
    /\ \A s \in sess_suppressed : \A g \in Guilds : cycle_sent[<<g, s>>] = 0

\* alice was live for three hours when the bot came up; a later cycle of the
\* same stream has polled her again for her subscriber.
C3_Witness ==
    /\ pc = "done"
    /\ now > 0
    /\ "alice" \in sess_suppressed
    /\ "alice" \in cyc_live
    /\ SnapshotRow(1, "alice")
    /\ upstream["alice"] = LiveSince(LongAgo)
    /\ "alice" \in live_streamers

\* The bookkeeping rows of the pair (g, s).
RowsOf(g, s) == {m \in notification_messages : m.guild_id = g /\ m.streamer_name = s}

\* C4, removal: when a cycle ends, no name that was in live_streamers when a
\* live batch of the cycle for its chunk omitted it is still in live_streamers.
C4_OmittedRemoved == pc = "done" => cyc_missing \cap live_streamers = {}

\* C4, cleanup: the step that removes S from live_streamers starts
\* delete_offline_notifications over exactly the rows subscribed to S at that
\* moment; its step for one of those servers removes, when the server has
\* auto-delete on, every bookkeeping row of (server, S) and no other row, and
\* deletes no message but those of these rows; when the server has auto-delete
\* off it deletes no message and removes no row.
C4_CleanupStep ==
    /\ (pc = "offline" /\ live_streamers' # live_streamers) =>
         \E s \in live_streamers :
            /\ live_streamers' = live_streamers \ {s}
            /\ cleanup_name' = s
            /\ cleanup_servers' = {r \in monitored_streamers : r.streamer_name = s}
    /\ (pc = "cleanup" /\ cleanup_servers' # cleanup_servers) =>
         \E r \in cleanup_servers :
            /\ cleanup_servers' = cleanup_servers \ {r}
            /\ IF auto_delete[r.guild_id]
               THEN /\ notification_messages' =
                         notification_messages \ RowsOf(r.guild_id, cleanup_name)
                    /\ discord_messages' \subseteq discord_messages
                    /\ discord_messages \ discord_messages' \subseteq
                         {m.message_id : m \in RowsOf(r.guild_id, cleanup_name)}
               ELSE UNCHANGED <<notification_messages, discord_messages>>

\* C4: a tracked streamer that the live batch of its chunk omits is removed
\* from live_streamers in that cycle, and cleanup runs for exactly the servers
\* subscribed to it that have auto-delete enabled.
C4_OfflineRemovedAndCleaned == []C4_OmittedRemoved /\ [][C4_CleanupStep]_vars

\* alice went offline with two subscribed servers: the message of server 1
\* (auto-delete on) and its row are gone, the message of server 2 (off) stays.
C4_Witness ==
    /\ pc = "done"
    /\ "alice" \in cyc_missing
    /\ "alice" \notin live_streamers
    /\ ~upstream["alice"].live
    /\ HasRow(1, "alice") /\ HasRow(2, "alice")
    /\ auto_delete[1] /\ ~auto_delete[2]
    /\ notification_messages = {}
    /\ discord_messages = {Snowflake(0, 2, "alice")}

\* C5: while a stream runs, each subscribing server is delivered at most one
\* notification for it, whatever the upstream requests of the cycles answer.
C5_AtMostOnePerSession == \A p \in Guilds \X Streamers : sess_sent[p] <= 1

C7_SiblingsAttempted ==
    pc # "send" =>
        \A r \in cyc_failed_send :
            \A r2 \in MonitoringServers(streamers, r.streamer_name) :
                cycle_sent[<<r2.guild_id, r.streamer_name>>] = 1

\* C7, no raise: a send_notification call returns into the loop of lines
\* 126-127 and never into the handler of check_streams.
C7_SendReturns == pc = "send" => pc' \in {"send", "process"}

\* C7: send_notification never raises; a missing channel, a forbidden send or
\* a transport error for one server is absorbed and every other server
\* subscribed to the same newly live streamer is still attempted.
C7_DeliveryFailureIsolated == []C7_SiblingsAttempted /\ [][C7_SendReturns]_vars

\* The delivery to server 1 failed and server 2 got its message in the same
\* cycle.
C7_Witness ==
    /\ pc = "done"
    /\ \E r \in cyc_failed_send : r.guild_id = 1 /\ r.streamer_name = "alice"
    /\ cycle_sent[<<1, "alice">>] = 1
    /\ sess_sent[<<1, "alice">>] = 0
    /\ sess_sent[<<2, "alice">>] = 1
    /\ ~cyc_raised

\* C8: no exception escapes check_streams: a cycle that raised has the owner
\* alert requested when it ends, the loop is never stopped, and after a cycle
\* that raised the next cycle can start.
C8_CycleFailuresCaught ==
    /\ loop_running
    /\ (pc = "done" /\ cyc_raised) => alert_requested
    /\ (pc = "idle" /\ prev_raised) => ENABLED StartCycle

\* The cycle before raised; this one has polled every chunk and ended.
C8_Witness ==
    /\ pc = "done"
    /\ prev_raised
    /\ ~cyc_raised
    /\ cyc_calls = 2
    /\ loop_running

\* C9: a get_live_streams call whose request ends in a status other than 200
\* and 401, or in a transport exception, sends one request, returns the empty
\* list and does not raise; and a cycle that no exception ended has called
\* get_live_streams once for every chunk.
C9_NonAuthFailureYieldsEmptyBatch ==
    /\ call.first \in {"other", "exception"} =>
         /\ ~call.raised
         /\ call.streams = {}
         /\ call.requests = 1
    /\ (pc = "done" /\ ~cyc_raised) => cyc_calls = NumBatches(unique_streamers)

\* The first chunk's request failed without a 401 and the second chunk was
\* queried all the same.
C9_Witness ==
    /\ pc = "done"
    /\ cyc_nonauth = 1
    /\ cyc_calls = 2
    /\ ~cyc_raised

\* C10: one get_live_streams call sends at most two requests; the second only
\* after a 401 on the first and with a token exchanged after the cached one
\* was cleared; a retry answered 200 makes the call return the live records of
\* the names asked; a retry that fails makes it return the empty list; in
\* neither case does the call raise.
C10_RetryOnceAfter401 ==
    /\ call.requests <= 2
    /\ call.requests = 2 =>
         /\ call.first = "401"
         /\ call.cleared
         /\ call.exchanged_after_clear
    /\ call.first = "401" => ~call.raised
    /\ (call.requests = 2 /\ call.retry = "200" /\ call.answered) =>
         call.streams =
            HelixStreams({Lower(n) : n \in SeqToSet(Batch(unique_streamers, i))}, upstream)
    /\ (call.first = "401" /\ ~(call.retry = "200" /\ call.answered)) =>
         call.streams = {}

\* The second chunk of a cycle met a 401 on the cached token, and the retry
\* returned the live record.
C10_Witness ==
    /\ cyc_calls = 2
    /\ call.requests = 2
    /\ call.retry = "200"
    /\ call.exchanged_after_clear
    /\ call.streams # {}
    /\ ~call.raised

\* The call found a cached token more than 60 seconds before its expiry.
TokenCallFresh ==
    /\ tok_call.had_token
    /\ tok_call.had_expiry # NoExpiry
    /\ tok_call.at < tok_call.had_expiry - 60

\* C11: a get_access_token call makes no exchange if and only if a token is
\* cached and the clock is more than 60 seconds before its expiry, and then
\* leaves the cache as it is; otherwise it makes exactly one exchange, and a
\* successful one caches a token that expires expires_in seconds after the
\* call's reading of the clock.  So the cache never answers within 60 seconds
\* of the expiry.
C11_CachedTokenOnlyOutsideBuffer ==
    tok_call # NoTokenCall =>
        /\ tok_call.exchanges = 0 <=> TokenCallFresh
        /\ tok_call.exchanges <= 1
        /\ tok_call.exchanges = 0 =>
             /\ ~tok_call.raised
             /\ tok_call.token # NoToken
             /\ tok_call.expires = tok_call.had_expiry
             /\ tok_call.had_expiry - tok_call.at > 60
        /\ (tok_call.exchanges = 1 /\ ~tok_call.raised) =>
             /\ tok_call.token # NoToken
             /\ tok_call.expires = tok_call.at + tok_call.expires_in
        /\ access_token = tok_call.token /\ token_expires_at = tok_call.expires

\* A call exactly 60 seconds before the expiry of the cached token exchanged
\* it for a new one.
C11_Witness ==
    /\ tok_call.had_token
    /\ tok_call.had_expiry - tok_call.at = 60
    /\ tok_call.exchanges = 1
    /\ ~tok_call.raised
    /\ tok_call.expires = tok_call.at + tok_call.expires_in

\* The servers a step of delete_offline_notifications has gone through.
CleanedServers == cleanup_servers \ cleanup_servers'

\* C12, one step: when delete_offline_notifications has gone through a server
\* that is subscribed to the name and has auto-delete on, deletion was tried
\* for each of the pair's records and none of the pair's records is left,
\* whether the messages were deleted, were already gone or could not be
\* deleted.
C12_CleanupStepClears ==
    (pc = "cleanup" /\ cleanup_servers' # cleanup_servers) =>
        \A r \in CleanedServers :
            auto_delete[r.guild_id] =>
                /\ r.streamer_name = cleanup_name
                /\ \A m \in RowsOf(r.guild_id, cleanup_name) :
                      \E d \in cyc_deletions' :
                         /\ d.message_id = m.message_id
                         /\ d.outcome \in {"deleted", "not_found", "failed"}
                         /\ d.outcome = "deleted" <=>
                              (m.message_id \in discord_messages
                                 /\ m.message_id \notin discord_messages')
                /\ {m \in notification_messages' :
                      m.guild_id = r.guild_id /\ m.streamer_name = cleanup_name} = {}

\* C12: after delete_offline_notifications has processed a subscribed server
\* with auto-delete on for a streamer, no record of that pair remains, whatever
\* the outcome of each deletion.
C12_RecordsClearedWhateverOutcome == [][C12_CleanupStepClears]_vars

\* A cleanup met a message it could not delete and one that was already gone:
\* both are still recorded as tried, and no record is left.
C12_Witness ==
    /\ pc = "done"
    /\ \E d \in cyc_deletions :
          /\ d.outcome = "failed"
          /\ d.message_id \in discord_messages
          /\ auto_delete[d.message_id[2]]
          /\ HasRow(d.message_id[2], d.message_id[3])
          /\ RowsOf(d.message_id[2], d.message_id[3]) = {}

\* C12, the other outcome: the message was already gone.
C12_WitnessNotFound ==
    /\ pc = "done"
    /\ \E d \in cyc_deletions :
          /\ d.outcome = "not_found"
          /\ RowsOf(d.message_id[2], d.message_id[3]) = {}

\* C13, one step: a send_notification call writes exactly one record, that of
\* the message it delivered, if the message was delivered and the server has
\* auto-delete on when the call looks, and otherwise writes none; it removes
\* no record.
C13_SendStepSaves ==
    (pc = "send" /\ cycle_sent' # cycle_sent) =>
        \E g \in Guilds, s \in Streamers :
            /\ cycle_sent' = [cycle_sent EXCEPT ![<<g, s>>] = @ + 1]
            /\ notification_messages \subseteq notification_messages'
            /\ LET sent == discord_messages' \ discord_messages
                   new == notification_messages' \ notification_messages
               IN  IF sent # {} /\ auto_delete[g]
                   THEN \E m \in sent :
                           /\ sent = {m}
                           /\ \E c \in {r.channel_id : r \in monitoring_servers} :
                                 new = {[guild_id |-> g, streamer_name |-> s,
                                         channel_id |-> c, message_id |-> m]}
                   ELSE new = {}

\* C13: after send_notification returns, a new record exists if and only if
\* the message was sent and auto-delete was enabled for the server then; a
\* failed delivery or a disabled auto-delete writes none.
C13_RecordIffSentAndEnabled == [][C13_SendStepSaves]_vars

\* One fan-out delivered to two servers: the message of the server with
\* auto-delete on has a record, that of the other server has none.
C13_Witness ==
    \E m1 \in sess_messages, m2 \in sess_messages :
        /\ m1.auto_delete /\ ~m2.auto_delete
        /\ m1.streamer_name = m2.streamer_name
        /\ m1.message_id[1] = now /\ m2.message_id[1] = now
        /\ \E r \in notification_messages : r.message_id = m1.message_id
        /\ \A r \in notification_messages : r.message_id # m2.message_id
        /\ {m1.message_id, m2.message_id} \subseteq discord_messages

\* C14: when a cycle that observed S offline has ended, the store holds no
\* record of a notification for S, whatever remove_streamer and set_auto_delete
\* commands ran between the send and that cycle.  Stated for the runs in which
\* nothing failed and for a stream that has really ended.
C14_NoRecordOutlivesStream ==
    (pc = "done" /\ ~cyc_raised /\ faults = 0) =>
        \A s \in cyc_missing :
            ~upstream[s].live =>
                \A m \in notification_messages : m.streamer_name # s

\* C15 as stated, one step: when delete_offline_notifications goes through a
\* server with auto-delete on, deletion is tried for every message delivered to
\* the server for that stream, whenever auto-delete was switched on.
C15_EverySessionMessageTriedStep ==
    (pc = "cleanup" /\ cleanup_servers' # cleanup_servers) =>
        \A r \in CleanedServers :
            auto_delete[r.guild_id] =>
                \A m \in sess_messages :
                    (m.guild_id = r.guild_id /\ m.streamer_name = cleanup_name) =>
                        \E d \in cyc_deletions' : d.message_id = m.message_id

C15_EverySessionMessageTried == [][C15_EverySessionMessageTriedStep]_vars

\* A delivered message has a record only if auto-delete was on when it was
\* sent, and no deletion is tried for a message sent while it was off.
C15_UnrecordedNeverTried ==
    \A m \in sess_messages :
        ~m.auto_delete =>
            /\ \A r \in notification_messages : r.message_id # m.message_id
            /\ \A d \in cyc_deletions : d.message_id # m.message_id

\* When delete_offline_notifications goes through a server with auto-delete
\* on, deletion is tried for exactly the recorded messages of the pair.
C15_RecordedTriedStep ==
    (pc = "cleanup" /\ cleanup_servers' # cleanup_servers) =>
        \A r \in CleanedServers :
            auto_delete[r.guild_id] =>
                \A m \in sess_messages :
                    (m.guild_id = r.guild_id /\ m.streamer_name = cleanup_name) =>
                        ((\E d \in cyc_deletions' : d.message_id = m.message_id)
                            <=> (\E x \in notification_messages :
                                    x.message_id = m.message_id))

\* C15, amended: for a server with auto-delete on when a subscribed stream is
\* observed offline, deletion is tried for every message of the server and
\* stream that has a record, that is, that was sent while auto-delete was on;
\* a message sent while auto-delete was off has no record and is never tried.
C15_RecordedMessagesTried == []C15_UnrecordedNeverTried /\ [][C15_RecordedTriedStep]_vars

\* Auto-delete was switched on after the notification went out: the stream has
\* ended, the cleanup has run for the server, and the message is still there.
C15_Witness ==
    /\ pc = "done"
    /\ \E m \in sess_messages :
          /\ ~m.auto_delete
          /\ auto_delete[m.guild_id]
          /\ HasRow(m.guild_id, m.streamer_name)
          /\ m.streamer_name \in cyc_missing
          /\ m.message_id \in discord_messages
          /\ \A d \in cyc_deletions : d.message_id # m.message_id
    /\ ~cyc_raised
    /\ cleanup_servers = {}

\* C16: every subscription without a channel of its own is notified in the
\* default channel its server has now.
C16_NoCustomFollowsDefault ==
    \A r \in monitored_streamers :
        r.custom_channel_id = Null =>
            NotificationChannel(monitored_streamers, r.guild_id, r.streamer_name)
                = {db_get_notification_channel(server_settings, r.guild_id)}

\* C17: a subscription with a channel of its own is notified in that channel.
C17_CustomChannelUsed ==
    \A r \in monitored_streamers :
        r.custom_channel_id # Null =>
            NotificationChannel(monitored_streamers, r.guild_id, r.streamer_name)
                = {r.custom_channel_id}

\* C19: a server for which no colour was ever set resolves to the colour
\* /resetcolor stores, with or without a settings row, so any two such servers
\* resolve to the same colour.
C19_OneDefaultColor ==
    /\ \A g \in Guilds \ color_set :
          db_get_embed_color(server_settings, g) = RESET_COLOR
    /\ \A g1 \in Guilds \ color_set, g2 \in Guilds \ color_set :
          db_get_embed_color(server_settings, g1) = db_get_embed_color(server_settings, g2)

\* The subscriptions of the pair (g, name), in any letter case.
PairRows(rows, g, name) ==
    {r \in rows : r.guild_id = g /\ Lower(r.streamer_name) = Lower(name)}

\* C20, the rows: no two subscriptions of one server differ only in the
\* letter case of the name, and names are stored in lower case.
C20_OnePerPair ==
    \A r1 \in monitored_streamers, r2 \in monitored_streamers :
        (r1.guild_id = r2.guild_id
            /\ Lower(r1.streamer_name) = Lower(r2.streamer_name)) => r1 = r2

\* C20, one call: add_streamer answers False and changes nothing if the pair
\* exists in any letter case, and otherwise answers True and adds one row under
\* the lowercased name; remove_streamer removes the pair and answers True
\* exactly if it existed.
C20_CallStep ==
    cmd_result'.seq # cmd_result.seq =>
        LET c == cmd_result'
            existed == PairRows(monitored_streamers, c.guild_id, c.name) # {}
        IN  /\ c.op = "add" =>
                 /\ c.returned = ~existed
                 /\ existed => monitored_streamers' = monitored_streamers
                 /\ ~existed =>
                      \E r \in monitored_streamers' :
                         /\ r \notin monitored_streamers
                         /\ monitored_streamers' = monitored_streamers \cup {r}
                         /\ r.guild_id = c.guild_id
                         /\ r.streamer_name = Lower(c.name)
            /\ c.op = "remove" =>
                 /\ c.returned = existed
                 /\ monitored_streamers' =
                      monitored_streamers \
                         PairRows(monitored_streamers, c.guild_id, c.name)

\* C20: at most one subscription per (server, lowercased name); add_streamer
\* for an existing pair in any letter case returns False and leaves it
\* unchanged; remove_streamer in any letter case removes it and returns True
\* exactly when it existed.
C20_CaseInsensitiveUniquePair == []C20_OnePerPair /\ [][C20_CallStep]_vars

\* "Alice" was refused for a server that is subscribed to "alice".
C20_Witness ==
    /\ cmd_result.op = "add"
    /\ cmd_result.name = "Alice"
    /\ ~cmd_result.returned
    /\ \E r \in monitored_streamers :
          r.guild_id = cmd_result.guild_id /\ r.streamer_name = "alice"

\* Two alerts have the same key: the same error type and the same guild, or
\* both no guild.
SameAlertKey(a, b) == a.error_type = b.error_type /\ a.guild_id = b.guild_id

\* C18: any two operator DMs delivered for one alert key carry clock readings
\* at least 3600 seconds apart, and a call is suppressed only if a DM of its
\* own key was delivered less than 3600 seconds before it.
C18_CooldownPerKey ==
    /\ \A x \in 1..Len(alerts_delivered), y \in 1..Len(alerts_delivered) :
          (x < y /\ SameAlertKey(alerts_delivered[x], alerts_delivered[y])) =>
              alerts_delivered[y].current_time - alerts_delivered[x].current_time >= 3600
    /\ alert_call.outcome = "suppressed" =>
          \E x \in 1..Len(alerts_delivered) :
             /\ SameAlertKey(alerts_delivered[x], alert_call)
             /\ alert_call.current_time - alerts_delivered[x].current_time >= 0
             /\ alert_call.current_time - alerts_delivered[x].current_time < 3600

\* Two DMs of one key exactly 3600 seconds apart, and in between a DM of the
\* same error type for another guild.
C18_Witness ==
    \E x \in 1..Len(alerts_delivered), y \in 1..Len(alerts_delivered),
       z \in 1..Len(alerts_delivered) :
        /\ SameAlertKey(alerts_delivered[x], alerts_delivered[z])
        /\ alerts_delivered[z].current_time - alerts_delivered[x].current_time = 3600
        /\ alerts_delivered[y].error_type = alerts_delivered[x].error_type
        /\ alerts_delivered[y].guild_id # alerts_delivered[x].guild_id
        /\ alerts_delivered[y].current_time - alerts_delivered[x].current_time = 1800

\* The pairs (server, name) a step of the fan-out calls send_notification for.
SentTo == {p \in Guilds \X Streamers : cycle_sent'[p] # cycle_sent[p]}

\* C23, the order: send_notification is called for a name only after the name
\* was added to live_streamers.
C23_MarkedBeforeSendStep ==
    (pc = "send" /\ cycle_sent' # cycle_sent) =>
        \A p \in SentTo : p[2] \in live_streamers

\* C23, the consequence: a cycle sends a notification for S only if no earlier
\* cycle delivered one for the stream of S that is running.
C23_NoResendStep ==
    (pc = "send" /\ cycle_sent' # cycle_sent) =>
        \A p \in SentTo :
            \A m \in sess_messages :
                m.streamer_name = p[2] => m.message_id[1] = now

C25_DeleteStep ==
    (pc = "cleanup" /\ discord_messages' # discord_messages) =>
        ~upstream[cleanup_name].live

C25_DeletedOnlyWhenOffline == [][C25_DeleteStep]_vars

\* C26: when a cycle ends, every name in live_streamers is subscribed by a
\* server now, or was when the cycle read the subscriptions.
C26_LiveSetSubscribed ==
    pc = "done" =>
        \A s \in live_streamers :
            \/ \E r \in monitored_streamers : r.streamer_name = s
            \/ \E r \in streamers : r.streamer_name = s

\* C28, one step: send_notification is called for (G, S) only while G is
\* subscribed to S.
C28_SendStep ==
    (pc = "send" /\ cycle_sent' # cycle_sent) =>
        \A p \in SentTo : HasRow(p[1], p[2])

\* C28: no notification for S is sent to server G after remove_streamer(G, S)
\* has completed, under any interleaving of the commands with a poll cycle.
C28_NoSendAfterRemove == [][C28_SendStep]_vars

\* The places (call, position) at which a cycle passed the name to
\* get_live_streams.
AskedAt(name) ==
    {p \in (1..Len(cyc_asked)) \X (1..Cardinality(Streamers)) :
        p[2] <= Len(cyc_asked[p[1]]) /\ cyc_asked[p[1]][p[2]] = name}

\* C24: when a cycle has ended without an exception, every name of the
\* subscriptions it read was passed to get_live_streams in exactly one call,
\* however many servers subscribe to it; no other name was passed, and no call
\* carried more names than the chunk size.
C24_EachNameInOneCall ==
    (pc = "done" /\ ~cyc_raised) =>
        /\ \A name \in {r.streamer_name : r \in streamers} :
              Cardinality(AskedAt(name)) = 1
        /\ \A c \in 1..Len(cyc_asked) :
              /\ Len(cyc_asked[c]) <= BatchSize
              /\ \A n \in 1..Len(cyc_asked[c]) :
                    \E r \in streamers : r.streamer_name = cyc_asked[c][n]

\* Two servers subscribe to alice and one of them to bob: the cycle made two
\* calls.
C24_Witness ==
    /\ pc = "done"
    /\ ~cyc_raised
    /\ Len(cyc_asked) = 2
    /\ \E r1 \in streamers, r2 \in streamers :
          /\ r1.streamer_name = "alice" /\ r2.streamer_name = "alice"
          /\ r1.guild_id # r2.guild_id
    /\ \E r \in streamers : r.streamer_name = "bob"

RowsOfOthers(store, g) ==
    [monitored_streamers |-> {r \in store.monitored_streamers : r.guild_id # g},
     server_settings |-> [h \in Guilds \ {g} |-> store.server_settings[h]],
     notification_messages |-> {r \in store.notification_messages : r.guild_id # g},
     cleanup_configs |-> {r \in store.cleanup_configs : r.guild_id # g}]

\* C21: the step of on_guild_remove(G) leaves no subscription, settings row,
\* notification-message record or cleanup configuration of G, and leaves the
\* rows of every other server in the four tables as they were.
C21_RemoveStep ==
    guild_call'.seq # guild_call.seq =>
        /\ TablesOf(Store', guild_call'.guild_id) = {}
        /\ RowsOfOthers(Store', guild_call'.guild_id)
              = RowsOfOthers(Store, guild_call'.guild_id)

\* C21: every on_guild_remove step clears the four tables of the removed
\* server and leaves the rows of the other servers alone.
C21_RemovedGuildHasNoRows ==
    [][C21_RemoveStep]_vars

\* A server with rows in all four tables was removed while another server has
\* a subscription and a settings row.
C21_Witness ==
    /\ guild_call.guild_id = 1
    /\ Cardinality(guild_call.tables) = 4
    /\ TablesOf(Store, 1) = {}
    /\ {"monitored_streamers", "server_settings"} \subseteq TablesOf(Store, 2)

\* C29: a step that is set_embed_color(g, c) leaves a store in which
\* get_embed_color(g) answers c, and get_embed_color answers for every other
\* server what it answered before.
C29_SetColorStep ==
    \A g \in Guilds, c \in Colors \cup {RESET_COLOR} :
        (/\ store_calls' # store_calls
         /\ g \in color_set'
         /\ server_settings' = db_set_embed_color(server_settings, g, c))
        => /\ db_get_embed_color(server_settings', g) = c
           /\ \A h \in Guilds \ {g} :
                 db_get_embed_color(server_settings', h)
                    = db_get_embed_color(server_settings, h)

C29_GetReturnsColorSet ==
    [][C29_SetColorStep]_vars

\* The messages the job deletes in the step.
DeletedNow == job_deleted' \ job_deleted

\* C22 as stated: a message the job deletes was created before the cutoff of
\* the run, and with keep_pinned it is not pinned when it is deleted.
C22_DeleteStep ==
    \A m \in DeletedNow :
        /\ CreatedAt(m) < cutoff_time
        /\ job_keep_pinned => m \notin pinned

C22_DeleteStepListed ==
    \A m \in DeletedNow :
        /\ CreatedAt(m) < cutoff_time
        /\ job_keep_pinned => m \notin listed_pinned

C27_ObservedStreamNotified ==
    \A row \in RecencyStreamers :
        (upstream[row.streamer_name].live /\ row.streamer_name \in observed)
            => <<row.guild_id, row.streamer_name>> \in attempted

\* C30: with max_roles = N on a button picker, the member holds at most N
\* roles of the group, whatever the interleaving of the member's button
\* interactions.
C30_AtMostMaxRoles ==
    picker.max_roles \notin {Null, 0} =>
        CurrentCount(GroupRoles, member_roles) <= picker.max_roles

====
